---- MODULE Spec2Model ----
(***************************************************************************)
(* A model of the Open Notebook API: the application lifespan             *)
(* (api/main.py), the notebooks, prompts and chat routers (api/routers)   *)
(* and the chat graph node (open_notebook/graphs/chat.py).                *)
(*                                                                         *)
(* Python's None is the string "<null>"; a value is truthy when it is     *)
(* neither None nor the empty string.  Record ids are modelled by their   *)
(* key; a request id is a pair of the key and whether it carries the      *)
(* table prefix ("chat_session:", "source:", ...).                        *)
(***************************************************************************)
EXTENDS Integers, Sequences, FiniteSets, TLC

VARIABLES
    \* ---- application lifespan (api/main.py)
    lifePc,          \* position of the lifespan handler
    dbVersion,       \* schema version stored in the database
    current_version, \* lifespan local: version read before migrating
    new_version,     \* lifespan local: version read after migrating
    pendingSeen,     \* answer of needs_migration(): "unknown" | "yes" | "no"
    startupError,    \* exception that left the lifespan handler
    served,          \* requests answered since startup
    \* ---- database records and edges
    notebooks,       \* notebook key -> record
    prompts,         \* system_prompt key -> record
    sessions,        \* chat_session key -> record
    refers_to,       \* edges chat_session -> notebook
    sources,         \* keys of the stored sources
    notes,           \* keys of the stored notes
    reference,       \* edge records [id, in, out] of table reference
    artifact,        \* edges note -> notebook
    \* ---- LangGraph checkpointer: thread id -> persisted state values
    checkpoints,
    nextMsgId,       \* next message id the add_messages reducer assigns
    chatCount,       \* execute_chat calls made (bounds the run)
    clientView,      \* per session id: the messages execute_chat last returned
    now,             \* the wall clock, datetime.now()
    \* ---- the last request and its response
    resp,
    \* ---- one run of call_model_with_messages (graphs/chat.py)
    loopRunning,     \* an event loop runs in the calling thread
    cfgModelId,      \* config["configurable"]["model_id"]
    stateOverride,   \* state["model_override"]
    callerPc,        \* position of the calling thread
    workerPc,        \* position of the executor's worker thread
    futureResult,    \* what the worker's future holds
    provisionedOn,   \* where provision_langchain_model ran
    provisionArg,    \* the model id it was given
    model,           \* the model the caller holds
    callError,       \* exception that left call_model_with_messages
    \* ---- prompt assembly of call_model_with_messages
    promptState,     \* the ThreadState the node is called with
    system_prompt,   \* the system prompt it built
    \* ---- records of the other routers, and the process environment
    note_records,    \* note key -> record
    transformations, \* transformation key -> record
    settings,        \* the ContentSettings singleton
    default_prompts, \* the DefaultPrompts singleton
    episode_profiles,\* episode profile key -> record
    environ          \* os.environ: variable name -> value, None when unset

lifeVars == <<lifePc, dbVersion, current_version, new_version, pendingSeen,
              startupError, served>>
dbVars == <<notebooks, prompts, sessions, refers_to, sources, notes, reference,
           artifact>>
chatVars == <<checkpoints, nextMsgId, chatCount, clientView, now>>
provVars == <<loopRunning, cfgModelId, stateOverride, callerPc, workerPc,
              futureResult, provisionedOn, provisionArg, model, callError>>
promptVars == <<promptState, system_prompt>>
storeVars == <<note_records, transformations, settings, default_prompts,
               episode_profiles, environ>>
vars == <<lifeVars, dbVars, chatVars, resp, provVars, promptVars, storeVars>>

None == "<null>"

\* Python truthiness of an Optional[str]
Truthy(v) == v # None /\ v # ""

NoResp == [op |-> "none"]

(***************************************************************************)
(* Bounds of the model                                                     *)
(***************************************************************************)
MaxVersion == 3      \* the schema version the migrations lead to
MaxServed == 4       \* requests counted after startup
MaxEdges == 3        \* reference edges ever created
MaxChats == 2        \* execute_chat calls in one run
MaxClock == 1        \* ticks of the wall clock in one run
MaxEntries == 2      \* entries of one kind in a context_config
MaxItems == 2        \* sources, and notes, in the context of one chat
MaxProfiles == 3     \* episode profiles stored at one time
MaxNameLen == 11     \* longest profile name that is still duplicated

(***************************************************************************)
(* Application lifespan: api/main.py, lifespan                             *)
(***************************************************************************)
NoVersion == -1

LifeInit ==
    /\ lifePc = "start"
    /\ dbVersion \in 0..MaxVersion
    /\ current_version = NoVersion
    /\ new_version = NoVersion
    /\ pendingSeen = "unknown"
    /\ startupError = "none"
    /\ served = 0

\* The application as the other routers see it: started, nothing served yet.
LifeServing ==
    /\ lifePc = "serving"
    /\ dbVersion = MaxVersion
    /\ current_version = MaxVersion
    /\ new_version = NoVersion
    /\ pendingSeen = "no"
    /\ startupError = "none"
    /\ served = 0

\* A step of the lifespan handler touches nothing else.
OnlyLifespan ==
    UNCHANGED <<dbVars, chatVars, resp, provVars, promptVars, storeVars>>

\* (mutant) the error is logged and startup goes on
StartupAbortLogged ==
    /\ lifePc' = "initialized"
    /\ startupError' = "none"

\* except Exception as e: raise RuntimeError(...) from e
StartupAbort ==
    /\ lifePc' = "aborted"
    /\ startupError' = "RuntimeError"

\* current_version = await migration_manager.get_current_version()
ReadVersion ==
    /\ OnlyLifespan
    /\ lifePc = "start"
    /\ \/ /\ lifePc' = "version_read"
          /\ current_version' = dbVersion
          /\ UNCHANGED startupError
       \/ /\ StartupAbort
          /\ UNCHANGED current_version
    /\ UNCHANGED <<dbVersion, new_version, pendingSeen, served>>

\* if await migration_manager.needs_migration():
CheckPending ==
    /\ OnlyLifespan
    /\ lifePc = "version_read"
    /\ \/ /\ lifePc' = "pending_checked"
          /\ pendingSeen' = IF dbVersion < MaxVersion THEN "yes" ELSE "no"
          /\ UNCHANGED startupError
       \/ /\ StartupAbort
          /\ UNCHANGED pendingSeen
    /\ UNCHANGED <<dbVersion, current_version, new_version, served>>

\* await migration_manager.run_migration_up(): all pending migrations, or an
\* exception after some of them
RunMigration ==
    /\ OnlyLifespan
    /\ lifePc = "pending_checked"
    /\ pendingSeen = "yes"
    /\ \/ /\ lifePc' = "migrated"
          /\ dbVersion' = MaxVersion
          /\ UNCHANGED startupError
       \/ /\ StartupAbort
          /\ dbVersion' \in dbVersion..(MaxVersion - 1)
    /\ UNCHANGED <<current_version, new_version, pendingSeen, served>>

\* new_version = await migration_manager.get_current_version()
ReadNewVersion ==
    /\ OnlyLifespan
    /\ lifePc = "migrated"
    /\ \/ /\ lifePc' = "initialized"
          /\ new_version' = dbVersion
          /\ UNCHANGED startupError
       \/ /\ StartupAbort
          /\ UNCHANGED new_version
    /\ UNCHANGED <<dbVersion, current_version, pendingSeen, served>>

\* else: "Database is already at the latest version"
NoMigrationNeeded ==
    /\ OnlyLifespan
    /\ lifePc = "pending_checked"
    /\ pendingSeen = "no"
    /\ lifePc' = "initialized"
    /\ UNCHANGED <<dbVersion, current_version, new_version, pendingSeen,
                   startupError, served>>

\* yield: the application starts to serve
Yield ==
    /\ OnlyLifespan
    /\ lifePc = "initialized"
    /\ lifePc' = "serving"
    /\ UNCHANGED <<dbVersion, current_version, new_version, pendingSeen,
                   startupError, served>>

\* the code after yield
Shutdown ==
    /\ OnlyLifespan
    /\ lifePc = "serving"
    /\ lifePc' = "shutdown"
    /\ UNCHANGED <<dbVersion, current_version, new_version, pendingSeen,
                   startupError, served>>

\* A request reaches a route only while the lifespan context is open.
Serving == lifePc = "serving"

\* @app.get("/")
root ==
    /\ Serving
    /\ served < MaxServed
    /\ served' = served + 1
    /\ resp' = [op |-> "root", code |-> 200,
                body |-> "Open Notebook API is running"]
    /\ UNCHANGED <<lifePc, dbVersion, current_version, new_version,
                   pendingSeen, startupError>>
    /\ UNCHANGED <<dbVars, chatVars, provVars, promptVars, storeVars>>

\* @app.get("/health")
health ==
    /\ Serving
    /\ served < MaxServed
    /\ served' = served + 1
    /\ resp' = [op |-> "health", code |-> 200, body |-> "healthy"]
    /\ UNCHANGED <<lifePc, dbVersion, current_version, new_version,
                   pendingSeen, startupError>>
    /\ UNCHANGED <<dbVars, chatVars, provVars, promptVars, storeVars>>

(***************************************************************************)
(* Database records.  Domain objects are loaded with <Class>.get(id); for  *)
(* an id that names no record the lookup either returns nothing or raises  *)
(* NotFoundError, and the handlers provide for both.                       *)
(***************************************************************************)
NotebookIds == {"n1", "n2"}
SourceIds == {"src1", "src2"}
NoteIds == {"nt1", "nt2"}
PromptIds == {"p1", "p2"}
SessionIds == {"cs1", "cs2"}

\* How a lookup of a missing record ends.
MissOutcomes == {"returns_none", "raises_not_found"}

AbsentNotebook ==
    [exists |-> FALSE, name |-> None, description |-> None, archived |-> None,
     custom_system_prompt |-> None, active_prompt_id |-> None]

AbsentPrompt == [exists |-> FALSE, name |-> None, content |-> None]

AbsentSession == [exists |-> FALSE, title |-> None, model_override |-> None]

\* A request id: the key, and whether the table prefix is written out.
RequestIds(keys) == [key : keys, full : BOOLEAN]

\* full_id = id if id.startswith("<table>:") else f"<table>:{id}"
\* (both forms name the record with that key)
FullId(rid) == rid.key

\* The string the request carried, as it is used for a thread id.
RawId(rid) == IF rid.full THEN "chat_session:" \o rid.key ELSE rid.key

DbIdle ==
    /\ notebooks = [n \in NotebookIds |-> AbsentNotebook]
    /\ prompts = [p \in PromptIds |-> AbsentPrompt]
    /\ sessions = [s \in SessionIds |-> AbsentSession]
    /\ refers_to = {}
    /\ sources = {}
    /\ notes = {}
    /\ reference = {}
    /\ artifact = {}

ChatIdle ==
    /\ checkpoints = << >>
    /\ nextMsgId = 1
    /\ chatCount = 0
    /\ clientView = << >>
    /\ now = 0

ProvIdle ==
    /\ loopRunning = FALSE
    /\ cfgModelId = None
    /\ stateOverride = None
    /\ callerPc = "idle"
    /\ workerPc = "idle"
    /\ futureResult = None
    /\ provisionedOn = "nowhere"
    /\ provisionArg = None
    /\ model = None
    /\ callError = "none"

PromptIdle ==
    /\ promptState = << >>
    /\ system_prompt = << >>

\* No record of the other routers, and an empty environment.
StoreIdle ==
    /\ note_records = << >>
    /\ transformations = << >>
    /\ settings = << >>
    /\ default_prompts = << >>
    /\ episode_profiles = << >>
    /\ environ = << >>

\* One more request answered.
Reply(r) ==
    /\ Serving
    /\ resp' = r
    /\ UNCHANGED lifeVars

\* A request answered by a route of the notebooks, prompts or chat router:
\* these leave the records of the other routers alone.
Answer(r) ==
    /\ Reply(r)
    /\ UNCHANGED storeVars

(***************************************************************************)
(* The exception handlers that close each route                            *)
(***************************************************************************)
\* chat.py, prompts.py:  except NotFoundError: 404 / except Exception: 500.
\* An HTTPException raised inside the try block is an Exception.
ChatRouterStatus(exc) ==
    IF exc = "NotFoundError" THEN 404 ELSE 500

\* notebooks.py, build_context:  except HTTPException: raise /
\* except Exception: 500
NotebookRouterStatus(exc, code) ==
    IF exc = "HTTPException" THEN code ELSE 500

\* The exception a handler meets when it looks up a record that is missing:
\* "if not x: raise HTTPException(404)" or the lookup's own NotFoundError.
MissingExc(miss) ==
    IF miss = "returns_none" THEN "HTTPException" ELSE "NotFoundError"

(***************************************************************************)
(* api/routers/notebooks.py: sources of a notebook                         *)
(***************************************************************************)
\* SELECT * FROM reference WHERE out = $source_id AND in = $notebook_id
ExistingRef(notebook_id, source_id) ==
    {e \in reference : e.out = source_id /\ e.in = notebook_id}

\* RELATE $source_id->reference->$notebook_id: a new edge record whose in is
\* the source and whose out is the notebook
Relate(source_id, notebook_id) ==
    LET id == CHOOSE i \in 1..(MaxEdges + 1) :
                  \A e \in reference : e.id # i
    IN  reference \cup {[id |-> id, in |-> source_id, out |-> notebook_id]}

\* (mutant) one matching edge is deleted
DeleteRefOne(notebook_id, source_id) ==
    LET hits == {e \in reference : e.out = notebook_id /\ e.in = source_id}
    IN  IF hits = {} THEN reference
        ELSE reference \ {CHOOSE e \in hits : TRUE}

\* DELETE FROM reference WHERE out = $notebook_id AND in = $source_id
DeleteRef(notebook_id, source_id) ==
    {e \in reference : ~(e.out = notebook_id /\ e.in = source_id)}

\* The edges that link source s to notebook n (count(<-reference.in))
Links(n, s) == {e \in reference : e.in = s /\ e.out = n}

add_source_to_notebook(notebook_id, source_id, miss) ==
    LET req == [op |-> "add_source_to_notebook", notebook_id |-> notebook_id,
                source_id |-> source_id]
    IN
    /\ IF ~notebooks[notebook_id].exists
       THEN /\ Answer(req @@ [code |-> NotebookRouterStatus(MissingExc(miss), 404),
                              detail |-> "Notebook not found"])
            /\ UNCHANGED reference
       ELSE IF source_id \notin sources
       THEN /\ Answer(req @@ [code |-> NotebookRouterStatus(MissingExc(miss), 404),
                              detail |-> "Source not found"])
            /\ UNCHANGED reference
       ELSE /\ IF ExistingRef(notebook_id, source_id) = {}
               THEN /\ Cardinality(reference) < MaxEdges
                    /\ reference' = Relate(source_id, notebook_id)
               ELSE UNCHANGED reference
            /\ Answer(req @@ [code |-> 200,
                              detail |-> "Source linked to notebook successfully"])
    /\ UNCHANGED <<notebooks, prompts, sessions, refers_to, sources, notes,
                 artifact>>
    /\ UNCHANGED <<chatVars, provVars, promptVars>>

remove_source_from_notebook(notebook_id, source_id, miss) ==
    LET req == [op |-> "remove_source_from_notebook",
                notebook_id |-> notebook_id, source_id |-> source_id]
    IN
    /\ IF ~notebooks[notebook_id].exists
       THEN /\ Answer(req @@ [code |-> NotebookRouterStatus(MissingExc(miss), 404),
                              detail |-> "Notebook not found"])
            /\ UNCHANGED reference
       ELSE /\ reference' = DeleteRef(notebook_id, source_id)
            /\ Answer(req @@ [code |-> 200,
                              detail |-> "Source removed from notebook successfully"])
    /\ UNCHANGED <<notebooks, prompts, sessions, refers_to, sources, notes,
                 artifact>>
    /\ UNCHANGED <<chatVars, provVars, promptVars>>

(***************************************************************************)
(* api/routers/chat.py: chat sessions                                      *)
(***************************************************************************)
\* SELECT out FROM refers_to WHERE in = $session_id;  notebook_query[0]["out"]
\* if notebook_query else None
NotebookOf(session_key) ==
    IF \E n \in NotebookIds : <<session_key, n>> \in refers_to
    THEN CHOOSE n \in NotebookIds : <<session_key, n>> \in refers_to
    ELSE None

\* session.delete() / notebook.delete(): the record goes, and with it the
\* graph edges that start or end at it
EdgesWithout(edges, key) ==
    {e \in edges : e[1] # key /\ e[2] # key}

\* The thread a session's messages are kept under: the checkpointer is
\* addressed with the session id as the request wrote it.
ThreadIds == {RawId(r) : r \in RequestIds(SessionIds)}

NoMessages == << >>

\* thread_state.values["messages"] when there is a checkpoint, else nothing
StateMessages(thread_id) == checkpoints[thread_id]

\* (mutant) no timestamp is set
ChatMessagesUnstamped(msgs) ==
    [i \in 1..Len(msgs) |->
        [id |-> msgs[i].id, type |-> msgs[i].type, content |-> msgs[i].content,
         timestamp |-> None]]

\* current_time = datetime.now(utc_plus_8).isoformat();  for msg in messages:
\* ChatMessage(id=msg.id, type=msg.type, content=msg.content,
\* timestamp=current_time)
ChatMessages(msgs) ==
    [i \in 1..Len(msgs) |->
        [id |-> msgs[i].id, type |-> msgs[i].type, content |-> msgs[i].content,
         timestamp |-> now]]

\* Time passes between two requests.
Tick ==
    /\ now < MaxClock
    /\ now' = now + 1
    /\ UNCHANGED <<checkpoints, nextMsgId, chatCount, clientView>>
    /\ UNCHANGED <<lifeVars, dbVars, resp, provVars, promptVars, storeVars>>

\* (mutant) the checkpoint is read under the prefixed session id
GetSessionThreadFull(rid) == "chat_session:" \o rid.key

\* get_session: configurable={"thread_id": session_id}
GetSessionThread(rid) == RawId(rid)

\* title=session.title or "Untitled Session"
TitleOr(title, default) == IF Truthy(title) THEN title ELSE default

get_sessions(notebook_id, miss) ==
    LET req == [op |-> "get_sessions", notebook_id |-> notebook_id]
    IN
    /\ IF ~notebooks[notebook_id].exists
       THEN Answer(req @@ [code |-> ChatRouterStatus(MissingExc(miss)),
                           detail |-> "Notebook not found"])
       ELSE Answer(req @@
                [code |-> 200,
                 body |-> {[id |-> s,
                            title |-> TitleOr(sessions[s].title, "Untitled Session"),
                            notebook_id |-> notebook_id,
                            message_count |-> 0,
                            model_override |-> sessions[s].model_override] :
                           s \in {k \in SessionIds :
                                    <<k, notebook_id>> \in refers_to}}])
    /\ UNCHANGED <<dbVars, chatVars, provVars, promptVars>>

create_session(request, miss) ==
    LET req == [op |-> "create_session", notebook_id |-> request.notebook_id]
    IN
    /\ IF ~notebooks[request.notebook_id].exists
       THEN /\ Answer(req @@ [code |-> ChatRouterStatus(MissingExc(miss)),
                              detail |-> "Notebook not found"])
            /\ UNCHANGED <<sessions, refers_to>>
       ELSE LET id == CHOOSE k \in SessionIds : ~sessions[k].exists IN
            /\ \E k \in SessionIds : ~sessions[k].exists
            /\ sessions' = [sessions EXCEPT ![id] =
                   [exists |-> TRUE,
                    title |-> TitleOr(request.title, "Chat Session <time>"),
                    model_override |-> request.model_override]]
            /\ refers_to' = refers_to \cup {<<id, request.notebook_id>>}
            /\ Answer(req @@
                   [code |-> 200, id |-> id,
                    title |-> TitleOr(request.title, "Chat Session <time>"),
                    message_count |-> 0,
                    model_override |-> request.model_override])
    /\ UNCHANGED <<notebooks, prompts, sources, notes, reference, artifact>>
    /\ UNCHANGED <<chatVars, provVars, promptVars>>

get_session(rid, miss) ==
    LET req == [op |-> "get_session", session_id |-> RawId(rid),
                key |-> FullId(rid)]
        session == sessions[FullId(rid)]
        messages == ChatMessages(StateMessages(GetSessionThread(rid)))
    IN
    /\ IF ~session.exists
       THEN Answer(req @@ [code |-> ChatRouterStatus(MissingExc(miss)),
                           detail |-> "Session not found"])
       ELSE Answer(req @@
                [code |-> 200, id |-> FullId(rid),
                 title |-> TitleOr(session.title, "Untitled Session"),
                 notebook_id |-> NotebookOf(FullId(rid)),
                 message_count |-> Len(messages),
                 messages |-> messages,
                 model_override |-> session.model_override])
    /\ UNCHANGED <<dbVars, chatVars, provVars, promptVars>>

\* (mutant) only the fields given a value other than None are taken
MergeNotNone(stored, update_data, fields) ==
    [f \in DOMAIN stored |->
        IF f \in fields /\ f \in DOMAIN update_data /\ update_data[f] # None
        THEN update_data[f]
        ELSE stored[f]]

\* update_data = request.model_dump(exclude_unset=True);
\* if "<field>" in update_data: record.<field> = update_data["<field>"]
Merge(stored, update_data, fields) ==
    [f \in DOMAIN stored |->
        IF f \in fields /\ f \in DOMAIN update_data
        THEN update_data[f]
        ELSE stored[f]]

\* await record.save(): the record is stored with the fields as assigned,
\* or the call raises and the stored record stays as it was
SaveOutcomes == {"saved", "InvalidInputError"}

Save(stored, record, outcome) ==
    IF outcome = "saved" THEN record ELSE stored

\* The request bodies of an update: any subset of the fields, each with a
\* value, None included.
Bodies(fields, values) ==
    UNION {[S -> values] : S \in SUBSET fields}

update_session(rid, update_data, miss, save) ==
    LET req == [op |-> "update_session", session_id |-> RawId(rid),
                key |-> FullId(rid), update_data |-> update_data]
        stored == sessions[FullId(rid)]
        session == Merge(stored, update_data, {"title", "model_override"})
    IN
    /\ IF ~stored.exists
       THEN /\ Answer(req @@ [code |-> ChatRouterStatus(MissingExc(miss)),
                              detail |-> "Session not found",
                              before |-> stored])
            /\ UNCHANGED sessions
       ELSE IF save # "saved"
       THEN /\ sessions' = [sessions EXCEPT ![FullId(rid)] =
                                Save(stored, session, save)]
            /\ Answer(req @@ [code |-> ChatRouterStatus(save),
                              detail |-> "Error updating session",
                              before |-> stored])
       ELSE /\ sessions' = [sessions EXCEPT ![FullId(rid)] =
                                Save(stored, session, save)]
            /\ Answer(req @@
                   [code |-> 200, id |-> FullId(rid),
                    before |-> stored,
                    title |-> TitleOr(session.title, ""),
                    notebook_id |-> NotebookOf(FullId(rid)),
                    message_count |-> 0,
                    model_override |-> session.model_override])
    /\ UNCHANGED <<notebooks, prompts, refers_to, sources, notes, reference,
                 artifact>>
    /\ UNCHANGED <<chatVars, provVars, promptVars>>

delete_session(rid, miss) ==
    LET req == [op |-> "delete_session", session_id |-> RawId(rid),
                key |-> FullId(rid)]
    IN
    /\ IF ~sessions[FullId(rid)].exists
       THEN /\ Answer(req @@ [code |-> ChatRouterStatus(MissingExc(miss)),
                              detail |-> "Session not found"])
            /\ UNCHANGED <<sessions, refers_to>>
       ELSE /\ sessions' = [sessions EXCEPT ![FullId(rid)] = AbsentSession]
            /\ refers_to' = EdgesWithout(refers_to, FullId(rid))
            /\ Answer(req @@ [code |-> 200,
                              detail |-> "Session deleted successfully"])
    /\ UNCHANGED <<notebooks, prompts, sources, notes, reference, artifact>>
    /\ UNCHANGED <<chatVars, provVars, promptVars>>

(***************************************************************************)
(* api/routers/chat.py: execute_chat, and the state the chat graph keeps   *)
(***************************************************************************)
NoMsgId == 0

\* langgraph's add_messages reducer of ThreadState.messages: a message
\* without an id gets a fresh one; a message whose id is already in the list
\* replaces that entry; any other message is appended.
RECURSIVE AddMessages(_, _, _)
AddMessages(left, right, next) ==
    IF right = << >>
    THEN left
    ELSE LET m == Head(right)
             m1 == IF m.id = NoMsgId THEN [m EXCEPT !.id = next] ELSE m
             next1 == IF m.id = NoMsgId THEN next + 1 ELSE next
             at == {i \in 1..Len(left) : left[i].id = m1.id}
             merged == IF at # {}
                       THEN [left EXCEPT ![CHOOSE i \in at : TRUE] = m1]
                       ELSE Append(left, m1)
         IN  AddMessages(merged, Tail(right), next1)

\* (mutant) a falsy request override gives way to the session's
ModelOverrideIfTruthy(request_override, session_override) ==
    IF Truthy(request_override) THEN request_override ELSE session_override

\* model_override = request.model_override if request.model_override is not
\* None else getattr(session, "model_override", None)
ModelOverride(request_override, session_override) ==
    IF request_override # None THEN request_override ELSE session_override

\* call_model_with_messages: model_id = config.get("configurable",
\* {}).get("model_id") or state.get("model_override")
ModelId(config_model_id, state_model_override) ==
    IF Truthy(config_model_id) THEN config_model_id ELSE state_model_override

\* First priority: try: specified_prompt = await SystemPrompt.get(
\* request.prompt_id); custom_system_prompt = specified_prompt.content
\* except Exception: warning.  (A missing prompt raises in the lookup or on
\* .content of nothing; either way the except clause takes it.)
SpecifiedPrompt(prompt_id) ==
    IF Truthy(prompt_id) /\ prompts[prompt_id].exists
    THEN prompts[prompt_id].content
    ELSE None

Value(v) == [exc |-> "none", value |-> v]

Raise(e) == [exc |-> e, value |-> None]

\* Third priority: if not custom_system_prompt and
\* notebook.custom_system_prompt
LegacyPrompt(notebook, custom) ==
    IF ~Truthy(custom) /\ Truthy(notebook.custom_system_prompt)
    THEN notebook.custom_system_prompt
    ELSE custom

\* (mutant) the notebook's active prompt is consulted before the request's
ActiveFirstPrompt(notebook, prompt_id, miss) ==
    LET active == notebook.active_prompt_id
        second == IF Truthy(active) /\ prompts[active].exists
                  THEN prompts[active].content
                  ELSE None
        first == IF ~Truthy(second) THEN SpecifiedPrompt(prompt_id) ELSE second
    IN  Value(LegacyPrompt(notebook, first))

\* The three priorities for a notebook that was found (lines 409-431).
\* notebook.get_active_prompt() of a prompt that is gone returns nothing or
\* raises NotFoundError.
NotebookPrompt(notebook, prompt_id, miss) ==
    LET first == SpecifiedPrompt(prompt_id)
        active == notebook.active_prompt_id
    IN  IF ~Truthy(first) /\ Truthy(active)
        THEN IF prompts[active].exists
             THEN Value(LegacyPrompt(notebook, prompts[active].content))
             ELSE IF miss = "raises_not_found"
             THEN Raise("NotFoundError")
             ELSE Value(LegacyPrompt(notebook, first))
        ELSE Value(LegacyPrompt(notebook, first))

\* custom_system_prompt = None; if notebook_id: notebook = await
\* Notebook.get(notebook_id); if notebook: ...
CustomSystemPrompt(notebook_id, prompt_id, miss) ==
    IF ~Truthy(notebook_id)
    THEN Value(None)
    ELSE IF ~notebooks[notebook_id].exists
    THEN IF miss = "raises_not_found" THEN Raise("NotFoundError") ELSE Value(None)
    ELSE NotebookPrompt(notebooks[notebook_id], prompt_id, miss)

HumanMessage(content) == [id |-> NoMsgId, type |-> "human", content |-> content]

\* the graph node's reply, thinking content cleaned
AIMessage == [id |-> NoMsgId, type |-> "ai", content |-> "reply"]

NotReturned == [known |-> FALSE, messages |-> << >>]

Returned(messages) == [known |-> TRUE, messages |-> messages]

\* (mutant) every chat runs on one thread
ExecuteThreadShared(session_id) == "cs1"

\* execute_chat: config=RunnableConfig(configurable={"thread_id":
\* request.session_id})
ExecuteThread(session_id) == RawId(session_id)

\* request: [session_id, message, context, model_override, prompt_id,
\* include_citations]; llm: whether the graph node (provisioning and the
\* model call) succeeds
execute_chat(request, miss, llm) ==
    LET key == FullId(request.session_id)
        thread == ExecuteThread(request.session_id)
        req == [op |-> "execute_chat", session_id |-> thread, key |-> key,
                request |-> request]
        session == sessions[key]
        model_override == ModelOverride(request.model_override,
                                        session.model_override)
        custom == CustomSystemPrompt(NotebookOf(key), request.prompt_id, miss)
        history == StateMessages(thread)
        input == Append(history, HumanMessage(request.message))
        \* chat_graph.invoke: the input is merged into the thread's state and
        \* checkpointed, then the node runs
        written == AddMessages(history, input, nextMsgId)
        result == AddMessages(written, <<AIMessage>>, nextMsgId + 1)
        graph == [custom_system_prompt |-> custom.value,
                  model_override |-> model_override,
                  model_id |-> ModelId(model_override, model_override),
                  context |-> request.context,
                  include_citations |-> request.include_citations]
    IN
    /\ chatCount < MaxChats
    /\ IF ~session.exists
       THEN /\ Answer(req @@ [code |-> ChatRouterStatus(MissingExc(miss)),
                              detail |-> "Session not found",
                              invoked |-> FALSE])
            /\ UNCHANGED chatVars
       ELSE IF custom.exc # "none"
       THEN /\ Answer(req @@ [code |-> ChatRouterStatus(custom.exc),
                              detail |-> "Session not found",
                              invoked |-> FALSE])
            /\ UNCHANGED chatVars
       ELSE /\ chatCount' = chatCount + 1
            /\ UNCHANGED now
            /\ IF llm = "fails"
               THEN /\ checkpoints' = [checkpoints EXCEPT ![thread] = written]
                    /\ nextMsgId' = nextMsgId + 1
                    /\ clientView' = [clientView EXCEPT ![thread] = NotReturned]
                    /\ Answer(req @@ [code |-> 500,
                                      detail |-> "Error executing chat",
                                      invoked |-> TRUE, graph |-> graph,
                                      history |-> ChatMessages(history)])
               ELSE /\ checkpoints' = [checkpoints EXCEPT ![thread] = result]
                    /\ nextMsgId' = nextMsgId + 2
                    /\ clientView' = [clientView EXCEPT ![thread] =
                                         Returned(ChatMessages(result))]
                    /\ Answer(req @@ [code |-> 200,
                                      invoked |-> TRUE, graph |-> graph,
                                      history |-> ChatMessages(history),
                                      messages |-> ChatMessages(result)])
    /\ UNCHANGED <<dbVars, provVars, promptVars>>

(***************************************************************************)
(* api/routers/prompts.py and api/routers/notebooks.py: the records the    *)
(* chat consults                                                           *)
(***************************************************************************)
update_prompt(rid, update_data, miss, save) ==
    LET req == [op |-> "update_prompt", key |-> FullId(rid),
                update_data |-> update_data]
        stored == prompts[FullId(rid)]
        prompt == Merge(stored, update_data, {"name", "content"})
    IN
    /\ IF ~stored.exists
       THEN /\ Answer(req @@ [code |-> ChatRouterStatus(MissingExc(miss)),
                              detail |-> "Prompt not found",
                              before |-> stored])
            /\ UNCHANGED prompts
       ELSE IF save # "saved"
       THEN /\ prompts' = [prompts EXCEPT ![FullId(rid)] =
                               Save(stored, prompt, save)]
            /\ Answer(req @@ [code |-> ChatRouterStatus(save),
                              detail |-> "Error updating prompt",
                              before |-> stored])
       ELSE /\ prompts' = [prompts EXCEPT ![FullId(rid)] =
                               Save(stored, prompt, save)]
            /\ Answer(req @@ [code |-> 200, id |-> FullId(rid),
                              before |-> stored,
                              name |-> prompt.name,
                              content |-> prompt.content])
    /\ UNCHANGED <<notebooks, sessions, refers_to, sources, notes, reference,
                 artifact>>
    /\ UNCHANGED <<chatVars, provVars, promptVars>>

\* prompt.delete(): the record goes; a notebook's active_prompt_id field
\* that names it stays as it is
delete_prompt(rid, miss) ==
    LET req == [op |-> "delete_prompt", key |-> FullId(rid)]
    IN
    /\ IF ~prompts[FullId(rid)].exists
       THEN /\ Answer(req @@ [code |-> ChatRouterStatus(MissingExc(miss)),
                              detail |-> "Prompt not found"])
            /\ UNCHANGED prompts
       ELSE /\ prompts' = [prompts EXCEPT ![FullId(rid)] = AbsentPrompt]
            /\ Answer(req @@ [code |-> 200,
                              detail |-> "Prompt deleted successfully"])
    /\ UNCHANGED <<notebooks, sessions, refers_to, sources, notes, reference,
                 artifact>>
    /\ UNCHANGED <<chatVars, provVars, promptVars>>

\* (mutant) the prompt is not looked up before it is made the active one
set_active_prompt_unverified(notebook_id, prompt_rid, miss) ==
    LET req == [op |-> "set_active_prompt", notebook_id |-> notebook_id,
                prompt_id |-> prompt_rid,
                before |-> notebooks[notebook_id].active_prompt_id]
        active == IF Truthy(prompt_rid.key) THEN FullId(prompt_rid) ELSE None
    IN
    /\ IF ~notebooks[notebook_id].exists
       THEN /\ Answer(req @@ [code |-> ChatRouterStatus(MissingExc(miss)),
                              detail |-> "Notebook not found"])
            /\ UNCHANGED notebooks
       ELSE /\ notebooks' = [notebooks EXCEPT
                                ![notebook_id].active_prompt_id = active]
            /\ Answer(req @@ [code |-> 200,
                              detail |-> "Active prompt updated successfully",
                              active_prompt_id |-> active])
    /\ UNCHANGED <<prompts, sessions, refers_to, sources, notes, reference,
                 artifact>>
    /\ UNCHANGED <<chatVars, provVars, promptVars>>

\* request.prompt_id: a request id whose key may be None or empty
set_active_prompt(notebook_id, prompt_rid, miss) ==
    LET req == [op |-> "set_active_prompt", notebook_id |-> notebook_id,
                prompt_id |-> prompt_rid,
                before |-> notebooks[notebook_id].active_prompt_id]
        active == IF Truthy(prompt_rid.key) THEN FullId(prompt_rid) ELSE None
    IN
    /\ IF ~notebooks[notebook_id].exists
       THEN /\ Answer(req @@ [code |-> ChatRouterStatus(MissingExc(miss)),
                              detail |-> "Notebook not found"])
            /\ UNCHANGED notebooks
       ELSE IF Truthy(prompt_rid.key) /\ ~prompts[FullId(prompt_rid)].exists
       THEN /\ Answer(req @@ [code |-> ChatRouterStatus(MissingExc(miss)),
                              detail |-> "Prompt not found"])
            /\ UNCHANGED notebooks
       ELSE /\ notebooks' = [notebooks EXCEPT
                                ![notebook_id].active_prompt_id = active]
            /\ Answer(req @@ [code |-> 200,
                              detail |-> "Active prompt updated successfully",
                              active_prompt_id |-> active])
    /\ UNCHANGED <<prompts, sessions, refers_to, sources, notes, reference,
                 artifact>>
    /\ UNCHANGED <<chatVars, provVars, promptVars>>

update_notebook(notebook_id, update_data, miss, save) ==
    LET req == [op |-> "update_notebook", key |-> notebook_id,
                update_data |-> update_data]
        stored == notebooks[notebook_id]
        notebook == Merge(stored, update_data,
                          {"name", "description", "archived",
                           "custom_system_prompt"})
    IN
    /\ IF ~stored.exists
       THEN /\ Answer(req @@ [code |-> NotebookRouterStatus(MissingExc(miss), 404),
                              detail |-> "Notebook not found",
                              before |-> stored])
            /\ UNCHANGED notebooks
       ELSE IF save # "saved"
       THEN /\ notebooks' = [notebooks EXCEPT ![notebook_id] =
                                 Save(stored, notebook, save)]
            /\ Answer(req @@ [code |-> 400, detail |-> save,
                              before |-> stored])
       ELSE /\ notebooks' = [notebooks EXCEPT ![notebook_id] =
                                 Save(stored, notebook, save)]
            /\ Answer(req @@
                   [code |-> 200, id |-> notebook_id,
                    before |-> stored,
                    name |-> notebook.name,
                    description |-> notebook.description,
                    archived |-> IF notebook.archived = None
                                 THEN "false" ELSE notebook.archived,
                    source_count |->
                        Cardinality({e \in reference : e.out = notebook_id}),
                    custom_system_prompt |-> notebook.custom_system_prompt])
    /\ UNCHANGED <<prompts, sessions, refers_to, sources, notes, reference,
                 artifact>>
    /\ UNCHANGED <<chatVars, provVars, promptVars>>

\* notebook.delete(): the record goes, and the edges that end at it
delete_notebook(notebook_id, miss) ==
    LET req == [op |-> "delete_notebook", key |-> notebook_id]
    IN
    /\ IF ~notebooks[notebook_id].exists
       THEN /\ Answer(req @@ [code |-> NotebookRouterStatus(MissingExc(miss), 404),
                              detail |-> "Notebook not found"])
            /\ UNCHANGED <<notebooks, refers_to, reference, artifact>>
       ELSE /\ notebooks' = [notebooks EXCEPT ![notebook_id] = AbsentNotebook]
            /\ refers_to' = EdgesWithout(refers_to, notebook_id)
            /\ reference' = {e \in reference : e.out # notebook_id}
            /\ artifact' = EdgesWithout(artifact, notebook_id)
            /\ Answer(req @@ [code |-> 200,
                              detail |-> "Notebook deleted successfully"])
    /\ UNCHANGED <<prompts, sessions, sources, notes>>
    /\ UNCHANGED <<chatVars, provVars, promptVars>>

\* The id the database gives a new system prompt: one that no record holds
\* and no notebook still names.
FreePromptIds ==
    {p \in PromptIds :
        /\ ~prompts[p].exists
        /\ \A n \in NotebookIds : notebooks[n].active_prompt_id # p}

NewPromptId == CHOOSE p \in FreePromptIds : TRUE

\* @router.post("/notebooks/{notebook_id}/prompts"): the notebook looked up
\* is the one the body names; prompt.relate_to_notebook adds the edge
create_prompt(request, miss, save) ==
    LET req == [op |-> "create_prompt", notebook_id |-> request.notebook_id,
                request |-> request]
        prompt == [exists |-> TRUE, name |-> request.name,
                   content |-> request.content]
    IN
    /\ FreePromptIds # {}
    /\ IF ~notebooks[request.notebook_id].exists
       THEN /\ Answer(req @@ [code |-> ChatRouterStatus(MissingExc(miss)),
                              detail |-> "Notebook not found"])
            /\ UNCHANGED <<prompts, refers_to>>
       ELSE IF save # "saved"
       THEN /\ Answer(req @@ [code |-> ChatRouterStatus(save),
                              detail |-> "Error creating prompt"])
            /\ UNCHANGED <<prompts, refers_to>>
       ELSE /\ prompts' = [prompts EXCEPT ![NewPromptId] = prompt]
            /\ refers_to' = refers_to \cup {<<NewPromptId, request.notebook_id>>}
            /\ Answer(req @@ [code |-> 200, id |-> NewPromptId,
                              name |-> prompt.name,
                              content |-> prompt.content])
    /\ UNCHANGED <<notebooks, sessions, sources, notes, reference, artifact>>
    /\ UNCHANGED <<chatVars, provVars, promptVars>>

\* @router.get("/notebooks/{notebook_id}/active-prompt"): when the lookup of
\* the active prompt raises, the notebook's active_prompt_id is cleared
get_active_prompt(notebook_id, miss) ==
    LET req == [op |-> "get_active_prompt", notebook_id |-> notebook_id,
                before |-> notebooks[notebook_id].active_prompt_id]
        active == notebooks[notebook_id].active_prompt_id
    IN
    /\ IF ~notebooks[notebook_id].exists
       THEN /\ Answer(req @@ [code |-> ChatRouterStatus(MissingExc(miss)),
                              detail |-> "Notebook not found"])
            /\ UNCHANGED notebooks
       ELSE IF ~Truthy(active)
       THEN /\ Answer(req @@ [code |-> 200, body |-> None])
            /\ UNCHANGED notebooks
       ELSE IF prompts[active].exists
       THEN /\ Answer(req @@ [code |-> 200,
                              body |-> [id |-> active,
                                        name |-> prompts[active].name,
                                        content |-> prompts[active].content]])
            /\ UNCHANGED notebooks
       ELSE IF miss = "raises_not_found"
       THEN /\ notebooks' = [notebooks EXCEPT
                                ![notebook_id].active_prompt_id = None]
            /\ Answer(req @@ [code |-> 200, body |-> None])
       ELSE /\ Answer(req @@ [code |-> 200, body |-> None])
            /\ UNCHANGED notebooks
    /\ UNCHANGED <<prompts, sessions, refers_to, sources, notes, reference,
                 artifact>>
    /\ UNCHANGED <<chatVars, provVars, promptVars>>

(***************************************************************************)
(* api/routers/chat.py: build_context                                      *)
(***************************************************************************)
\* The substrings build_context looks for in a status; a status is
\* the set of those it contains.
StatusParts == {"not in", "insights", "full content"}

\* (mutant) 'full content' is looked for before 'insights'
SourceContextSizeFullFirst(status) ==
    IF "not in" \in status THEN "omit"
    ELSE IF "full content" \in status THEN "long"
    ELSE IF "insights" \in status THEN "short"
    ELSE "omit"

\* if "not in" in status: continue / if "insights" in status: short /
\* elif "full content" in status: long
SourceContextSize(status) ==
    IF "not in" \in status THEN "omit"
    ELSE IF "insights" \in status THEN "short"
    ELSE IF "full content" \in status THEN "long"
    ELSE "omit"

\* if "not in" in status: continue / if "full content" in status: long
NoteContextSize(status) ==
    IF "not in" \in status THEN "omit"
    ELSE IF "full content" \in status THEN "long"
    ELSE "omit"

\* source.get_context(context_size=...), note.get_context(context_size=...)
ContextItem(key, size) == [id |-> key, context_size |-> size]

\* One pass of "for source_id, status in sources_config.items()".  A source
\* that Source.get does not deliver (it raises, or get_context fails on
\* nothing) is passed over by the except clauses.
ProcessSource(entry) ==
    LET size == SourceContextSize(entry.status)
    IN  IF size # "omit" /\ FullId(entry.id) \in sources
        THEN <<ContextItem(FullId(entry.id), size)>>
        ELSE << >>

\* One pass of "for note_id, status in ...get("notes", {}).items()"
ProcessNote(entry) ==
    LET size == NoteContextSize(entry.status)
    IN  IF size # "omit" /\ FullId(entry.id) \in notes
        THEN <<ContextItem(FullId(entry.id), size)>>
        ELSE << >>

RECURSIVE ProcessSources(_)
ProcessSources(entries) ==
    IF entries = << >> THEN << >>
    ELSE ProcessSource(Head(entries)) \o ProcessSources(Tail(entries))

RECURSIVE ProcessNotes(_)
ProcessNotes(entries) ==
    IF entries = << >> THEN << >>
    ELSE ProcessNote(Head(entries)) \o ProcessNotes(Tail(entries))

\* The records a query returned, in the order the database gave them
RECURSIVE Listed(_)
Listed(keys) ==
    IF keys = {} THEN << >>
    ELSE LET k == CHOOSE x \in keys : TRUE
         IN  <<k>> \o Listed(keys \ {k})

\* notebook.get_sources(): the sources with a reference edge to the notebook
NotebookSources(notebook_id) ==
    {s \in sources : Links(notebook_id, s) # {}}

\* notebook.get_notes(): the notes with an artifact edge to the notebook
NotebookNotes(notebook_id) ==
    {n \in notes : <<n, notebook_id>> \in artifact}

\* else: default behavior - all sources and notes with short context
DefaultContext(notebook_id) ==
    LET srcs == Listed(NotebookSources(notebook_id))
        nts == Listed(NotebookNotes(notebook_id))
    IN  [sources |-> [i \in 1..Len(srcs) |-> ContextItem(srcs[i], "short")],
         notes |-> [i \in 1..Len(nts) |-> ContextItem(nts[i], "short")]]

\* context_config is falsy (None or {}) when given is FALSE; a key the
\* config lacks reads as no entries.
build_context(request, miss) ==
    LET req == [op |-> "build_context", request |-> request]
        config == request.context_config
    IN
    /\ IF ~notebooks[request.notebook_id].exists
       THEN Answer(req @@ [code |-> NotebookRouterStatus(MissingExc(miss), 404),
                           detail |-> "Notebook not found"])
       ELSE Answer(req @@ [code |-> 200,
                context |-> IF config.given
                            THEN [sources |-> ProcessSources(config.sources),
                                  notes |-> ProcessNotes(config.notes)]
                            ELSE DefaultContext(request.notebook_id)])
    /\ UNCHANGED <<dbVars, chatVars, provVars, promptVars>>

(***************************************************************************)
(* call_model_with_messages: provisioning the model from a synchronous     *)
(* graph node (open_notebook/graphs/chat.py)                               *)
(***************************************************************************)
OnlyProvision ==
    UNCHANGED <<lifeVars, dbVars, chatVars, resp, promptVars, storeVars>>

\* What a run of provision_langchain_model can end with
ProvisionOutcomes == {"model", "RuntimeError", "Exception"}
Exceptions == {"RuntimeError", "Exception"}

\* try: asyncio.get_running_loop()  -- raises RuntimeError when no loop runs
\* in the calling thread, and the except clause takes it
GetRunningLoop ==
    /\ callerPc = "get_running_loop"
    /\ callerPc' = IF loopRunning THEN "submit" ELSE "asyncio_run"
    /\ UNCHANGED <<loopRunning, cfgModelId, stateOverride, workerPc,
                   futureResult, provisionedOn, provisionArg, model, callError>>
    /\ OnlyProvision

\* with ThreadPoolExecutor() as executor: future = executor.submit(
\* run_in_new_loop)
Submit ==
    /\ callerPc = "submit"
    /\ callerPc' = "future_result"
    /\ workerPc' = "new_event_loop"
    /\ UNCHANGED <<loopRunning, cfgModelId, stateOverride, futureResult,
                   provisionedOn, provisionArg, model, callError>>
    /\ OnlyProvision

\* worker: new_loop = asyncio.new_event_loop(); asyncio.set_event_loop(new_loop)
NewEventLoop ==
    /\ workerPc = "new_event_loop"
    /\ workerPc' = "run_until_complete"
    /\ UNCHANGED <<loopRunning, cfgModelId, stateOverride, callerPc,
                   futureResult, provisionedOn, provisionArg, model, callError>>
    /\ OnlyProvision

\* worker: return new_loop.run_until_complete(provision_langchain_model(
\* str(payload), model_id, "chat", max_tokens=8192))
RunUntilComplete(outcome) ==
    /\ workerPc = "run_until_complete"
    /\ workerPc' = "finally"
    /\ provisionedOn' = "worker_new_loop"
    /\ provisionArg' = ModelId(cfgModelId, stateOverride)
    /\ futureResult' = outcome
    /\ UNCHANGED <<loopRunning, cfgModelId, stateOverride, callerPc, model,
                   callError>>
    /\ OnlyProvision

\* worker: finally: new_loop.close(); asyncio.set_event_loop(None); the
\* future is then done
CloseNewLoop ==
    /\ workerPc = "finally"
    /\ workerPc' = "done"
    /\ UNCHANGED <<loopRunning, cfgModelId, stateOverride, callerPc,
                   futureResult, provisionedOn, provisionArg, model, callError>>
    /\ OnlyProvision

\* (mutant) the caller does not wait for the worker
FutureDoneNoWait == TRUE

\* future.result() blocks until the worker has finished
FutureDone == workerPc = "done"

\* model = future.result(): the worker's return value, or its exception
\* raised in the caller; except RuntimeError leads to asyncio.run
FutureResult ==
    /\ callerPc = "future_result"
    /\ FutureDone
    /\ IF futureResult \in Exceptions
       THEN /\ model' = model
            /\ IF futureResult = "RuntimeError"
               THEN callerPc' = "asyncio_run" /\ callError' = callError
               ELSE callerPc' = "raised" /\ callError' = futureResult
       ELSE /\ model' = futureResult
            /\ callerPc' = "invoke"
            /\ callError' = callError
    /\ UNCHANGED <<loopRunning, cfgModelId, stateOverride, workerPc,
                   futureResult, provisionedOn, provisionArg>>
    /\ OnlyProvision

\* except RuntimeError: model = asyncio.run(provision_langchain_model(...)).
\* asyncio.run raises RuntimeError at once, without running the coroutine,
\* when a loop is running in the calling thread.
AsyncioRun(outcome) ==
    /\ callerPc = "asyncio_run"
    /\ IF loopRunning
       THEN /\ callerPc' = "raised"
            /\ callError' = "RuntimeError"
            /\ UNCHANGED <<provisionedOn, provisionArg, model>>
       ELSE /\ provisionedOn' = "asyncio_run_calling_thread"
            /\ provisionArg' = ModelId(cfgModelId, stateOverride)
            /\ IF outcome = "model"
               THEN /\ model' = outcome
                    /\ callerPc' = "invoke"
                    /\ callError' = callError
               ELSE /\ model' = model
                    /\ callerPc' = "raised"
                    /\ callError' = outcome
    /\ UNCHANGED <<loopRunning, cfgModelId, stateOverride, workerPc,
                   futureResult>>
    /\ OnlyProvision

\* ai_message = model.invoke(payload) ... return {"messages": cleaned_message}
Invoke ==
    /\ callerPc = "invoke"
    /\ callerPc' = "returned"
    /\ UNCHANGED <<loopRunning, cfgModelId, stateOverride, workerPc,
                   futureResult, provisionedOn, provisionArg, model, callError>>
    /\ OnlyProvision

(***************************************************************************)
(* call_model_with_messages: the system prompt                             *)
(* (open_notebook/graphs/chat.py).  The prompt is the sequence of its      *)
(* parts; a part is its heading, the text put under it and the id shown    *)
(* in an "[ID: ...]" marker (None when it has no marker).  Titles and      *)
(* contents are carried as they are.                                       *)
(***************************************************************************)
\* dict.get(key, default)
Get(d, key, default) == IF key \in DOMAIN d THEN d[key] ELSE default

Part(heading, text, id) == [heading |-> heading, text |-> text, id |-> id]

\* "## Source: {title} [ID: {source_id}]" or "## Source: {title}"
SourcePart(source, include_citations) ==
    Part("## Source", Get(source, "title", "Unknown"),
         IF include_citations THEN Get(source, "id", "unknown") ELSE None)

\* "### {insight_type} [ID: {insight_id}]\n{content}" or without the marker
InsightPart(insight, include_citations) ==
    Part("### " \o Get(insight, "insight_type", "Insight"),
         Get(insight, "content", ""),
         IF include_citations THEN Get(insight, "id", "unknown") ELSE None)

\* (mutant) the note heading shows the id whatever the flag says
NotePartAlwaysId(note, include_citations) ==
    Part("## Note", <<Get(note, "title", "Unknown"), Get(note, "content", "")>>,
         Get(note, "id", "unknown"))

\* "## Note: {title} [ID: {note_id}]\n{content}" or without the marker
NotePart(note, include_citations) ==
    Part("## Note", <<Get(note, "title", "Unknown"), Get(note, "content", "")>>,
         IF include_citations THEN Get(note, "id", "unknown") ELSE None)

\* if "full_text" in source: "### Full Content\n{full_text}"
FullContentPart(source) ==
    IF "full_text" \in DOMAIN source
    THEN <<Part("### Full Content", source["full_text"], None)>>
    ELSE << >>

InsightParts(source, include_citations) ==
    IF "insights" \in DOMAIN source
    THEN [i \in 1..Len(source["insights"]) |->
             InsightPart(source["insights"][i], include_citations)]
    ELSE << >>

RECURSIVE SourceParts(_, _)
SourceParts(srcs, include_citations) ==
    IF srcs = << >> THEN << >>
    ELSE <<SourcePart(Head(srcs), include_citations)>>
         \o FullContentPart(Head(srcs))
         \o InsightParts(Head(srcs), include_citations)
         \o SourceParts(Tail(srcs), include_citations)

\* context_str of the custom-prompt branch.  "context_data and "sources" in
\* context_data": no context, or an empty one, has no keys.
ContextStr(context_data, include_citations) ==
    (IF "sources" \in DOMAIN context_data
     THEN SourceParts(context_data["sources"], include_citations)
     ELSE << >>)
    \o (IF "notes" \in DOMAIN context_data
        THEN [i \in 1..Len(context_data["notes"]) |->
                 NotePart(context_data["notes"][i], include_citations)]
        ELSE << >>)

RoleReminder ==
    Part("IMPORTANT", "follow the role and behavior described above", None)

\* if custom_prompt: ... system_prompt = f"{custom_prompt} IMPORTANT: ...
\* # Context Information {context_str} {citing_instructions}"
CustomSystemPromptText(custom_prompt, context_data, include_citations) ==
    LET context_str == ContextStr(context_data, include_citations)
        citing_instructions ==
            IF include_citations
            THEN <<Part("# CITING INSTRUCTIONS",
                        "add references by document ID in brackets", None)>>
            ELSE << >>
    IN  IF context_str # << >>
        THEN <<Part("custom_prompt", custom_prompt, None), RoleReminder,
               Part("# Context Information", "", None)>>
             \o context_str \o citing_instructions
        ELSE <<Part("custom_prompt", custom_prompt, None), RoleReminder>>

\* The no-citation copy of the loops in the default branch: headings
\* without ids
RECURSIVE PlainSourceParts(_)
PlainSourceParts(srcs) ==
    IF srcs = << >> THEN << >>
    ELSE LET source == Head(srcs)
         IN  <<Part("## Source", Get(source, "title", "Unknown"), None)>>
             \o FullContentPart(source)
             \o (IF "insights" \in DOMAIN source
                 THEN [i \in 1..Len(source["insights"]) |->
                          Part("### " \o Get(source["insights"][i],
                                             "insight_type", "Insight"),
                               Get(source["insights"][i], "content", ""),
                               None)]
                 ELSE << >>)
             \o PlainSourceParts(Tail(srcs))

PlainContextStr(context_data) ==
    (IF "sources" \in DOMAIN context_data
     THEN PlainSourceParts(context_data["sources"])
     ELSE << >>)
    \o (IF "notes" \in DOMAIN context_data
        THEN [i \in 1..Len(context_data["notes"]) |->
                 Part("## Note",
                      <<Get(context_data["notes"][i], "title", "Unknown"),
                        Get(context_data["notes"][i], "content", "")>>, None)]
        ELSE << >>)

\* else: default chat template.  With citations the prompt is what the
\* chat/system template renders from the state.
DefaultSystemPromptText(state) ==
    IF state.include_citations
    THEN <<Part("chat/system template", state.context, "rendered by Prompter")>>
    ELSE LET context_str == PlainContextStr(state.context)
         IN  IF context_str # << >>
             THEN <<Part("You are a helpful AI assistant.",
                         "Use the context information below", None),
                    Part("# Context Information", "", None)>>
                  \o context_str
                  \o <<Part("Please provide your answers",
                            "without including document references or IDs",
                            None)>>
             ELSE <<Part("You are a helpful AI assistant.", "", None)>>

\* call_model_with_messages, up to payload = [SystemMessage(system_prompt)]
BuildSystemPrompt ==
    /\ system_prompt = << >>
    /\ promptState # << >>
    /\ system_prompt' =
           IF Truthy(promptState.custom_system_prompt)
           THEN CustomSystemPromptText(promptState.custom_system_prompt,
                                       promptState.context,
                                       promptState.include_citations)
           ELSE DefaultSystemPromptText(promptState)
    /\ UNCHANGED <<lifeVars, dbVars, chatVars, resp, provVars, promptState,
                   storeVars>>

(***************************************************************************)
(* api/routers/notes.py, transformations.py, settings.py: the updates      *)
(* that set only the fields the request provides.  A request model gives   *)
(* every field, None for the ones the client left out; a boolean is the    *)
(* string "true" or "false" and a list is its JSON text.                   *)
(***************************************************************************)
TransformationIds == {"t1", "t2"}

NoteFields == {"title", "content", "note_type"}

TransformationFields ==
    {"name", "title", "description", "prompt", "apply_default"}

SettingsFields ==
    {"default_content_processing_engine_doc",
     "default_content_processing_engine_url",
     "default_embedding_option",
     "auto_delete_files",
     "youtube_preferred_languages"}

AbsentNote ==
    [exists |-> FALSE, title |-> None, content |-> None, note_type |-> None]

AbsentTransformation ==
    [exists |-> FALSE, name |-> None, title |-> None, description |-> None,
     prompt |-> None, apply_default |-> None]

\* (mutant) a field is set when the request's value is truthy
SetProvidedIfTruthy(stored, update, fields) ==
    [f \in DOMAIN stored |->
        IF f \in fields /\ update[f] \notin {None, "", "false", "[]"}
        THEN update[f]
        ELSE stored[f]]

\* if update.<field> is not None: record.<field> = update.<field>
SetProvided(stored, update, fields) ==
    [f \in DOMAIN stored |->
        IF f \in fields /\ update[f] # None
        THEN update[f]
        ELSE stored[f]]

\* @router.put("/notes/{note_id}")
update_note(note_id, note_update, miss, save) ==
    LET req == [op |-> "update_note", key |-> note_id,
                update |-> note_update, save |-> save]
        stored == note_records[note_id]
        note == SetProvided(stored, note_update, NoteFields)
    IN
    /\ IF ~stored.exists
       THEN /\ Reply(req @@ [code |-> NotebookRouterStatus(MissingExc(miss), 404),
                             detail |-> "Note not found",
                             before |-> stored])
            /\ UNCHANGED note_records
       ELSE IF note_update.note_type # None
               /\ note_update.note_type \notin {"human", "ai"}
       THEN /\ Reply(req @@ [code |-> 400,
                             detail |-> "note_type must be 'human' or 'ai'",
                             before |-> stored])
            /\ UNCHANGED note_records
       ELSE /\ note_records' = [note_records EXCEPT ![note_id] =
                                    Save(stored, note, save)]
            /\ IF save # "saved"
               THEN Reply(req @@ [code |-> 400, detail |-> save,
                                  before |-> stored])
               ELSE Reply(req @@ [code |-> 200, id |-> note_id,
                                  before |-> stored,
                                  title |-> note.title,
                                  content |-> note.content,
                                  note_type |-> note.note_type])
    /\ UNCHANGED <<transformations, settings, default_prompts,
                   episode_profiles, environ>>
    /\ UNCHANGED <<dbVars, chatVars, provVars, promptVars>>

\* await Transformation.get(transformation_id): any string can be asked for
TransformationGet(transformation_id) ==
    IF transformation_id \in DOMAIN transformations
    THEN transformations[transformation_id]
    ELSE AbsentTransformation

\* @router.put("/transformations/{transformation_id}")
update_transformation(transformation_id, transformation_update, miss, save) ==
    LET req == [op |-> "update_transformation", key |-> transformation_id,
                update |-> transformation_update, save |-> save]
        stored == TransformationGet(transformation_id)
        transformation ==
            SetProvided(stored, transformation_update, TransformationFields)
    IN
    /\ IF ~stored.exists
       THEN /\ Reply(req @@ [code |-> NotebookRouterStatus(MissingExc(miss), 404),
                             detail |-> "Transformation not found",
                             before |-> stored])
            /\ UNCHANGED transformations
       ELSE /\ transformations' = [transformations EXCEPT ![transformation_id] =
                                       Save(stored, transformation, save)]
            /\ IF save # "saved"
               THEN Reply(req @@ [code |-> 400, detail |-> save,
                                  before |-> stored])
               ELSE Reply(req @@ [code |-> 200, id |-> transformation_id,
                                  before |-> stored,
                                  name |-> transformation.name,
                                  title |-> transformation.title,
                                  description |-> transformation.description,
                                  prompt |-> transformation.prompt,
                                  apply_default |->
                                      transformation.apply_default])
    /\ UNCHANGED <<note_records, settings, default_prompts,
                   episode_profiles, environ>>
    /\ UNCHANGED <<dbVars, chatVars, provVars, promptVars>>

\* @router.put("/settings"): ContentSettings.get_instance() is the one
\* settings record, which always exists
update_settings(settings_update, save) ==
    LET req == [op |-> "update_settings", key |-> "settings",
                update |-> settings_update, save |-> save]
        stored == settings
        updated == SetProvided(stored, settings_update, SettingsFields)
    IN
    /\ settings' = Save(stored, updated, save)
    /\ IF save # "saved"
       THEN Reply(req @@ [code |-> 400, detail |-> save, before |-> stored])
       ELSE Reply(req @@ [code |-> 200, before |-> stored,
                          body |-> [f \in SettingsFields |-> updated[f]]])
    /\ UNCHANGED <<note_records, transformations, default_prompts,
                   episode_profiles, environ>>
    /\ UNCHANGED <<dbVars, chatVars, provVars, promptVars>>

(***************************************************************************)
(* api/routers/episode_profiles.py.  The handlers build the record and     *)
(* call save(); the episode_profile table keeps its names unique, so a     *)
(* save under a name another profile holds raises.                         *)
(***************************************************************************)
ProfileIds == 1..MaxProfiles

AbsentProfile == [exists |-> FALSE, name |-> None, description |-> None]

\* name: str = Field(..., description="Unique profile name")
UniqueName(store, key, name) ==
    \A k \in DOMAIN store \ {key} : store[k].exists => store[k].name # name

\* (mutant) the table accepts any name
SaveProfileAnyName(store, key, record) ==
    [saved |-> TRUE, store |-> [store EXCEPT ![key] = record]]

\* await profile.save() on the episode_profile table
SaveProfile(store, key, record) ==
    IF UniqueName(store, key, record.name)
    THEN [saved |-> TRUE, store |-> [store EXCEPT ![key] = record]]
    ELSE [saved |-> FALSE, store |-> store]

\* The id the database gives a new record.
NewProfileId == CHOOSE k \in ProfileIds : ~episode_profiles[k].exists

OnlyProfiles ==
    /\ UNCHANGED <<note_records, transformations, settings, default_prompts,
                   environ>>
    /\ UNCHANGED <<dbVars, chatVars, provVars, promptVars>>

\* @router.post("/episode-profiles")
create_episode_profile(profile_data) ==
    LET req == [op |-> "create_episode_profile", data |-> profile_data]
        profile == [exists |-> TRUE, name |-> profile_data.name,
                    description |-> profile_data.description]
        out == SaveProfile(episode_profiles, NewProfileId, profile)
    IN
    /\ \E k \in ProfileIds : ~episode_profiles[k].exists
    /\ episode_profiles' = out.store
    /\ IF out.saved
       THEN Reply(req @@ [code |-> 200, id |-> NewProfileId,
                          name |-> profile.name,
                          description |-> profile.description])
       ELSE Reply(req @@ [code |-> 500,
                          detail |-> "Failed to create episode profile"])
    /\ OnlyProfiles

\* @router.put("/episode-profiles/{profile_id}")
update_episode_profile(profile_id, profile_data, miss) ==
    LET req == [op |-> "update_episode_profile", key |-> profile_id,
                data |-> profile_data]
        stored == episode_profiles[profile_id]
        profile == [stored EXCEPT !.name = profile_data.name,
                                  !.description = profile_data.description]
        out == SaveProfile(episode_profiles, profile_id, profile)
    IN
    /\ IF ~stored.exists
       THEN /\ Reply(req @@ [code |-> NotebookRouterStatus(MissingExc(miss), 404),
                             detail |-> "Episode profile not found"])
            /\ UNCHANGED episode_profiles
       ELSE /\ episode_profiles' = out.store
            /\ IF out.saved
               THEN Reply(req @@ [code |-> 200, id |-> profile_id,
                                  name |-> profile.name,
                                  description |-> profile.description])
               ELSE Reply(req @@ [code |-> 500,
                                  detail |-> "Failed to update episode profile"])
    /\ OnlyProfiles

\* @router.delete("/episode-profiles/{profile_id}")
delete_episode_profile(profile_id, miss) ==
    LET req == [op |-> "delete_episode_profile", key |-> profile_id]
    IN
    /\ IF ~episode_profiles[profile_id].exists
       THEN /\ Reply(req @@ [code |-> NotebookRouterStatus(MissingExc(miss), 404),
                             detail |-> "Episode profile not found"])
            /\ UNCHANGED episode_profiles
       ELSE /\ episode_profiles' =
                   [episode_profiles EXCEPT ![profile_id] = AbsentProfile]
            /\ Reply(req @@ [code |-> 200,
                             message |-> "Episode profile deleted successfully"])
    /\ OnlyProfiles

\* @router.post("/episode-profiles/{profile_id}/duplicate")
duplicate_episode_profile(profile_id, miss) ==
    LET req == [op |-> "duplicate_episode_profile", key |-> profile_id]
        original == episode_profiles[profile_id]
        duplicate == [exists |-> TRUE, name |-> original.name \o " - Copy",
                      description |-> original.description]
        out == SaveProfile(episode_profiles, NewProfileId, duplicate)
    IN
    /\ IF ~original.exists
       THEN /\ Reply(req @@ [code |-> NotebookRouterStatus(MissingExc(miss), 404),
                             detail |-> "Episode profile not found"])
            /\ UNCHANGED episode_profiles
       ELSE /\ \E k \in ProfileIds : ~episode_profiles[k].exists
            /\ Len(original.name) <= MaxNameLen
            /\ episode_profiles' = out.store
            /\ IF out.saved
               THEN Reply(req @@ [code |-> 200, id |-> NewProfileId,
                                  name |-> duplicate.name,
                                  description |-> duplicate.description])
               ELSE Reply(req @@ [code |-> 500,
                                  detail |-> "Failed to duplicate episode profile"])
    /\ OnlyProfiles

(***************************************************************************)
(* api/routers/transformations.py: the routes of the router, in the order  *)
(* the decorators register them, and the dispatch of a request to the      *)
(* first route whose method and path match.  A path is the sequence of its *)
(* segments; a JSON body is a record of the fields it gives.               *)
(***************************************************************************)
Routes ==
    << [method |-> "GET", path |-> <<"transformations">>,
        endpoint |-> "get_transformations"],
       [method |-> "POST", path |-> <<"transformations">>,
        endpoint |-> "create_transformation"],
       [method |-> "GET", path |-> <<"transformations", "{transformation_id}">>,
        endpoint |-> "get_transformation"],
       [method |-> "PUT", path |-> <<"transformations", "{transformation_id}">>,
        endpoint |-> "update_transformation"],
       [method |-> "DELETE", path |-> <<"transformations", "{transformation_id}">>,
        endpoint |-> "delete_transformation"],
       [method |-> "POST", path |-> <<"transformations", "execute">>,
        endpoint |-> "execute_transformation"],
       [method |-> "GET", path |-> <<"transformations", "default-prompt">>,
        endpoint |-> "get_default_prompt"],
       [method |-> "PUT", path |-> <<"transformations", "default-prompt">>,
        endpoint |-> "update_default_prompt"] >>

\* A segment "{name}" of a route's path takes any segment of the request's.
IsParam(segment) == segment = "{transformation_id}"

Matches(route, method, path) ==
    /\ route.method = method
    /\ Len(route.path) = Len(path)
    /\ \A i \in 1..Len(path) :
          IsParam(route.path[i]) \/ route.path[i] = path[i]

\* The endpoint of the first route that matches, "none" when no route does.
Dispatch(routes, method, path) ==
    LET hits == {i \in 1..Len(routes) : Matches(routes[i], method, path)}
    IN IF hits = {}
       THEN "none"
       ELSE routes[CHOOSE i \in hits : \A j \in hits : i <= j].endpoint

\* TransformationUpdate(**body): the fields the model declares, None for
\* the ones the body leaves out; other keys of the body are ignored
ParseTransformationUpdate(body) ==
    [f \in TransformationFields |->
        IF f \in DOMAIN body THEN body[f] ELSE None]

OnlyTransformations ==
    /\ UNCHANGED <<note_records, settings, episode_profiles, environ>>
    /\ UNCHANGED <<dbVars, chatVars, provVars, promptVars>>

\* @router.get("/transformations/{transformation_id}")
get_transformation(transformation_id, miss) ==
    LET req == [op |-> "get_transformation", key |-> transformation_id]
        transformation == TransformationGet(transformation_id)
    IN
    /\ IF ~transformation.exists
       THEN Reply(req @@ [code |-> NotebookRouterStatus(MissingExc(miss), 404),
                          detail |-> "Transformation not found"])
       ELSE Reply(req @@ [code |-> 200, id |-> transformation_id,
                          name |-> transformation.name,
                          title |-> transformation.title,
                          description |-> transformation.description,
                          prompt |-> transformation.prompt,
                          apply_default |-> transformation.apply_default])
    /\ UNCHANGED <<transformations, default_prompts>>
    /\ OnlyTransformations

\* @router.get("/transformations/default-prompt")
get_default_prompt ==
    /\ Reply([op |-> "get_default_prompt", key |-> "default_prompts",
              code |-> 200,
              transformation_instructions |->
                  IF Truthy(default_prompts.transformation_instructions)
                  THEN default_prompts.transformation_instructions
                  ELSE ""])
    /\ UNCHANGED <<transformations, default_prompts>>
    /\ OnlyTransformations

\* @router.put("/transformations/default-prompt")
update_default_prompt(prompt_update) ==
    /\ default_prompts' =
           [default_prompts EXCEPT !.transformation_instructions =
                prompt_update.transformation_instructions]
    /\ Reply([op |-> "update_default_prompt", key |-> "default_prompts",
              code |-> 200,
              transformation_instructions |->
                  prompt_update.transformation_instructions])
    /\ UNCHANGED transformations
    /\ OnlyTransformations

\* A GET or PUT request to the router: the endpoint of the route that takes
\* it is called with the path parameter and the parsed body.
transformations_request(method, path, body, miss, save) ==
    LET endpoint == Dispatch(Routes, method, path)
    IN
    CASE endpoint = "get_transformation" ->
             get_transformation(path[2], miss)
      [] endpoint = "update_transformation" ->
             update_transformation(path[2], ParseTransformationUpdate(body),
                                   miss, save)
      [] endpoint = "get_default_prompt" ->
             get_default_prompt
      [] endpoint = "update_default_prompt" ->
             /\ "transformation_instructions" \in DOMAIN body
             /\ update_default_prompt(body)
      [] OTHER -> FALSE

(***************************************************************************)
(* api/routers/auth.py and api/routers/models.py: what the process         *)
(* environment enables.  environ gives the value of a variable, None when  *)
(* it is not set.                                                          *)
(***************************************************************************)
PasswordVar == "OPEN_NOTEBOOK_PASSWORD"

GenericVar == "OPENAI_COMPATIBLE_BASE_URL"

\* model type -> the mode-specific variable
ModeVar ==
    [language |-> "OPENAI_COMPATIBLE_BASE_URL_LLM",
     embedding |-> "OPENAI_COMPATIBLE_BASE_URL_EMBEDDING",
     speech_to_text |-> "OPENAI_COMPATIBLE_BASE_URL_STT",
     text_to_speech |-> "OPENAI_COMPATIBLE_BASE_URL_TTS"]

ModelTypes == DOMAIN ModeVar

EnvNames == {PasswordVar, GenericVar} \cup {ModeVar[t] : t \in ModelTypes}

\* app.add_middleware(PasswordAuthMiddleware, excluded_paths=[...])
excluded_paths ==
    {"/", "/health", "/docs", "/openapi.json", "/redoc", "/api/auth/status",
     "/api/config"}

\* include_router(auth.router, prefix="/api"); APIRouter(prefix="/auth");
\* @router.get("/status")
AuthStatusPath == "/api" \o "/auth" \o "/status"

OnlyAnswered ==
    /\ UNCHANGED storeVars
    /\ UNCHANGED <<dbVars, chatVars, provVars, promptVars>>

\* (mutant) authentication is on as soon as the variable is set
AuthEnabledIfSet(env) == env[PasswordVar] # None

\* bool(os.environ.get("OPEN_NOTEBOOK_PASSWORD"))
AuthEnabled(env) == Truthy(env[PasswordVar])

\* @router.get("/status")
get_auth_status ==
    /\ Reply([op |-> "get_auth_status", path |-> AuthStatusPath, code |-> 200,
              auth_enabled |-> AuthEnabled(environ),
              message |-> IF AuthEnabled(environ)
                          THEN "Authentication is required"
                          ELSE "Authentication is disabled"])
    /\ OnlyAnswered

\* AIFactory.get_available_providers(): the types Esperanto offers the
\* provider for
EsperantoTypes == ModelTypes

\* (mutant) only the variable of the mode counts
OpenAICompatibleSupportModeOnly(env, t) == env[ModeVar[t]] # None

\* A type is supported when the generic variable or the variable of its
\* mode is set.
OpenAICompatibleSupport(env, t) ==
    env[GenericVar] # None \/ env[ModeVar[t]] # None

\* GET /api/models/providers, for the provider "openai-compatible": it is
\* available when some type is supported, and only then has an entry in
\* supported_types
get_providers ==
    LET supported == {t \in EsperantoTypes :
                         OpenAICompatibleSupport(environ, t)}
        available == supported # {}
    IN
    /\ Reply([op |-> "get_providers", code |-> 200,
              available |-> IF available THEN {"openai-compatible"} ELSE {},
              unavailable |-> IF available THEN {} ELSE {"openai-compatible"},
              supported_types |->
                  IF available
                  THEN [p \in {"openai-compatible"} |-> supported]
                  ELSE << >>])
    /\ OnlyAnswered

(***************************************************************************)
(* Specifications                                                          *)
(***************************************************************************)
\* A stored notebook as create_notebook leaves it
StoredNotebook ==
    [exists |-> TRUE, name |-> "nb", description |-> "", archived |-> "false",
     custom_system_prompt |-> None, active_prompt_id |-> None]

\* The application from process start: startup, then the root routes.
LifespanInit ==
    /\ LifeInit
    /\ DbIdle
    /\ ChatIdle
    /\ ProvIdle
    /\ PromptIdle
    /\ StoreIdle
    /\ resp = NoResp

LifespanNext ==
    \/ ReadVersion
    \/ CheckPending
    \/ RunMigration
    \/ ReadNewVersion
    \/ NoMigrationNeeded
    \/ Yield
    \/ Shutdown
    \/ root
    \/ health

SpecLifespan == LifespanInit /\ [][LifespanNext]_vars

\* Linking sources to notebooks.
RefsInit ==
    /\ LifeServing
    /\ \E N \in {{"n1"}, NotebookIds} :
           notebooks = [n \in NotebookIds |->
                           IF n \in N THEN StoredNotebook ELSE AbsentNotebook]
    /\ sources \in {{"src1"}, SourceIds}
    /\ prompts = [p \in PromptIds |-> AbsentPrompt]
    /\ sessions = [s \in SessionIds |-> AbsentSession]
    /\ refers_to = {}
    /\ notes = {}
    /\ reference = {}
    /\ artifact = {}
    /\ ChatIdle
    /\ ProvIdle
    /\ PromptIdle
    /\ StoreIdle
    /\ resp = NoResp

RefsNext ==
    \/ \E n \in NotebookIds, s \in SourceIds, miss \in MissOutcomes :
           add_source_to_notebook(n, s, miss)
    \/ \E n \in NotebookIds, s \in SourceIds, miss \in MissOutcomes :
           remove_source_from_notebook(n, s, miss)

SpecRefs == RefsInit /\ [][RefsNext]_vars

\* Chat sessions of a notebook with its prompts.
StoredPrompt(p) == [exists |-> TRUE, name |-> p, content |-> "text of " \o p]

StoredSession ==
    [exists |-> TRUE, title |-> "chat", model_override |-> None]

EmptyContext == [sources |-> << >>, notes |-> << >>]

ChatRequests(rids, prompt_ids, overrides) ==
    [session_id : rids, message : {"hello"}, context : {EmptyContext},
     model_override : overrides, prompt_id : prompt_ids,
     include_citations : {FALSE}]

\* Which prompt and which model a chat uses: one session of notebook n1,
\* the notebook's prompts, and the requests that change them.
ChatInit ==
    /\ LifeServing
    /\ notebooks = [n \in NotebookIds |->
                       IF n = "n1" THEN StoredNotebook ELSE AbsentNotebook]
    /\ prompts = [p \in PromptIds |-> StoredPrompt(p)]
    /\ sessions = [s \in SessionIds |->
                      IF s = "cs1" THEN StoredSession ELSE AbsentSession]
    /\ refers_to = {<<"cs1", "n1">>}
    /\ sources = {}
    /\ notes = {}
    /\ reference = {}
    /\ artifact = {}
    /\ checkpoints = [t \in ThreadIds |-> NoMessages]
    /\ nextMsgId = 1
    /\ chatCount = 0
    /\ clientView = [t \in ThreadIds |-> NotReturned]
    /\ now = 0
    /\ ProvIdle
    /\ PromptIdle
    /\ StoreIdle
    /\ resp = NoResp

ChatNext ==
    \/ \E request \in ChatRequests([key : {"cs1"}, full : {FALSE}],
                                   PromptIds \cup {None, ""},
                                   {None, "", "model:m2"}),
          miss \in MissOutcomes, llm \in {"answers", "fails"} :
           execute_chat(request, miss, llm)
    \/ \E rid \in [key : {"cs1"}, full : {TRUE}],
          update_data \in Bodies({"model_override"}, {None, "model:m1"}),
          miss \in MissOutcomes :
           update_session(rid, update_data, miss, "saved")
    \/ \E rid \in [key : {"p1"}, full : {TRUE}],
          update_data \in Bodies({"content"}, {""}),
          miss \in MissOutcomes :
           update_prompt(rid, update_data, miss, "saved")
    \/ \E rid \in [key : PromptIds, full : {FALSE}], miss \in MissOutcomes :
           delete_prompt(rid, miss)
    \/ \E rid \in [key : PromptIds \cup {None}, full : {TRUE}],
          miss \in MissOutcomes :
           set_active_prompt("n1", rid, miss)
    \/ \E update_data \in Bodies({"custom_system_prompt"}, {"legacy"}),
          miss \in MissOutcomes :
           update_notebook("n1", update_data, miss, "saved")
    \/ \E miss \in MissOutcomes : delete_notebook("n1", miss)

SpecChat == ChatInit /\ [][ChatNext]_vars

\* Chat sessions and their histories: two sessions of notebook n1.
SessionsInit ==
    /\ LifeServing
    /\ notebooks = [n \in NotebookIds |->
                       IF n = "n1" THEN StoredNotebook ELSE AbsentNotebook]
    /\ prompts = [p \in PromptIds |-> AbsentPrompt]
    /\ sessions = [s \in SessionIds |->
                      IF s = "cs1" THEN StoredSession ELSE AbsentSession]
    /\ refers_to = {<<"cs1", "n1">>}
    /\ sources = {}
    /\ notes = {}
    /\ reference = {}
    /\ artifact = {}
    /\ checkpoints = [t \in ThreadIds |-> NoMessages]
    /\ nextMsgId = 1
    /\ chatCount = 0
    /\ clientView = [t \in ThreadIds |-> NotReturned]
    /\ now = 0
    /\ ProvIdle
    /\ PromptIdle
    /\ StoreIdle
    /\ resp = NoResp

SessionsNext ==
    \/ \E n \in NotebookIds, miss \in MissOutcomes : get_sessions(n, miss)
    \/ \E request \in [notebook_id : NotebookIds, title : {None},
                       model_override : {None}],
          miss \in MissOutcomes :
           create_session(request, miss)
    \/ \E rid \in RequestIds(SessionIds), miss \in MissOutcomes :
           get_session(rid, miss)
    \/ \E rid \in RequestIds(SessionIds),
          update_data \in Bodies({"title"}, {"renamed"}),
          miss \in MissOutcomes :
           update_session(rid, update_data, miss, "saved")
    \/ \E rid \in RequestIds(SessionIds), miss \in MissOutcomes :
           delete_session(rid, miss)
    \/ \E request \in ChatRequests(RequestIds(SessionIds), {None}, {None}),
          miss \in MissOutcomes, llm \in {"answers", "fails"} :
           execute_chat(request, miss, llm)
    \/ Tick

SpecSessions == SessionsInit /\ [][SessionsNext]_vars

\* The update routes: one stored record (a notebook, a session whose
\* notebook is gone, or a prompt whose notebook is gone) and every body.
UpdateInit ==
    /\ LifeServing
    /\ \E live \in {"notebook", "session", "prompt"} :
        /\ notebooks = [n \in NotebookIds |->
              IF n = "n1" /\ live = "notebook"
              THEN StoredNotebook ELSE AbsentNotebook]
        /\ prompts = [p \in PromptIds |->
              IF p = "p1" /\ live = "prompt"
              THEN StoredPrompt(p) ELSE AbsentPrompt]
        /\ sessions = [s \in SessionIds |->
              IF s = "cs1" /\ live = "session"
              THEN StoredSession ELSE AbsentSession]
    /\ refers_to = {}
    /\ sources = {}
    /\ notes = {}
    /\ reference = {}
    /\ artifact = {}
    /\ ChatIdle
    /\ ProvIdle
    /\ PromptIdle
    /\ StoreIdle
    /\ resp = NoResp

UpdateNext ==
    \/ \E update_data \in
             {b \in Bodies({"name", "description", "archived",
                            "custom_system_prompt"}, {None, "new", "true"}) :
                 \A f \in DOMAIN b : b[f] = "true" <=> f = "archived"}
               \cup {b \in Bodies({"archived"}, {None})  : TRUE},
          miss \in MissOutcomes, save \in SaveOutcomes :
           update_notebook("n1", update_data, miss, save)
    \/ \E rid \in [key : {"cs1"}, full : BOOLEAN],
          update_data \in Bodies({"title", "model_override"}, {None, "new"}),
          miss \in MissOutcomes, save \in SaveOutcomes :
           update_session(rid, update_data, miss, save)
    \/ \E rid \in [key : {"p1"}, full : BOOLEAN],
          update_data \in Bodies({"name", "content"}, {None, "new"}),
          miss \in MissOutcomes, save \in SaveOutcomes :
           update_prompt(rid, update_data, miss, save)

SpecUpdate == UpdateInit /\ [][UpdateNext]_vars

\* ---- one call of call_model_with_messages, in either calling context
ModelIds == {None, "", "model:m1", "model:m2"}

ProvisionInit ==
    /\ LifeServing
    /\ DbIdle
    /\ ChatIdle
    /\ PromptIdle
    /\ StoreIdle
    /\ resp = NoResp
    /\ loopRunning \in BOOLEAN
    /\ cfgModelId \in ModelIds
    /\ stateOverride \in ModelIds
    /\ callerPc = "get_running_loop"
    /\ workerPc = "idle"
    /\ futureResult = None
    /\ provisionedOn = "nowhere"
    /\ provisionArg = None
    /\ model = None
    /\ callError = "none"

ProvisionNext ==
    \/ GetRunningLoop
    \/ Submit
    \/ NewEventLoop
    \/ \E outcome \in ProvisionOutcomes : RunUntilComplete(outcome)
    \/ CloseNewLoop
    \/ FutureResult
    \/ \E outcome \in ProvisionOutcomes : AsyncioRun(outcome)
    \/ Invoke

SpecProvision == ProvisionInit /\ [][ProvisionNext]_vars

\* ---- one build_context request against a small database
SourceStatuses ==
    {{}, {"not in"}, {"insights"}, {"full content"},
     {"insights", "full content"}, {"not in", "insights"}}
NoteStatuses ==
    {{}, {"insights"}, {"full content"}, {"not in", "full content"}}

\* A dict of at most max entries: the keys, as written, are distinct
ConfigEntries(rids, statuses, max) ==
    UNION {{c \in [1..n -> [id : rids, status : statuses]] :
               \A i, j \in 1..n : i # j => c[i].id # c[j].id} : n \in 0..max}

ContextConfigs ==
    {[given |-> FALSE, sources |-> << >>, notes |-> << >>]} \cup
    [given : {TRUE},
     sources : ConfigEntries({[key |-> "src1", full |-> FALSE],
                              [key |-> "src1", full |-> TRUE],
                              [key |-> "src2", full |-> FALSE]},
                             SourceStatuses, MaxEntries),
     notes : ConfigEntries({[key |-> "nt1", full |-> FALSE],
                            [key |-> "nt1", full |-> TRUE]},
                           NoteStatuses, MaxEntries - 1)]

ContextInit ==
    /\ LifeServing
    /\ ChatIdle
    /\ ProvIdle
    /\ PromptIdle
    /\ StoreIdle
    /\ resp = NoResp
    /\ notebooks = [n \in NotebookIds |->
                       IF n = "n1" THEN StoredNotebook ELSE AbsentNotebook]
    /\ prompts = [p \in PromptIds |-> AbsentPrompt]
    /\ sessions = [s \in SessionIds |-> AbsentSession]
    /\ refers_to = {}
    /\ sources \in {{"src1"}, {"src1", "src2"}}
    /\ notes \in {{}, {"nt1"}}
    /\ reference \in SUBSET {[id |-> 1, in |-> "src1", out |-> "n1"]}
    /\ artifact \in SUBSET {<<n, "n1">> : n \in notes}

ContextNext ==
    /\ resp = NoResp
    /\ \E notebook_id \in NotebookIds, config \in ContextConfigs,
          miss \in MissOutcomes :
          build_context([notebook_id |-> notebook_id,
                         context_config |-> config], miss)

SpecContext == ContextInit /\ [][ContextNext]_vars

\* ---- one system prompt built from a thread state
ContextSources ==
    {[id |-> "source:a", title |-> "A",
      insights |-> <<[id |-> "source_insight:a1", insight_type |-> "Summary",
                      content |-> "summary of A"]>>],
     [id |-> "source:b", title |-> "B", full_text |-> "text of B",
      insights |-> <<[content |-> "untyped"]>>],
     [title |-> "C", full_text |-> "text of C"],
     [id |-> "source:d"]}

ContextNotes ==
    {[id |-> "note:x", title |-> "X", content |-> "note X"],
     [content |-> "untitled"]}

SeqsUpTo(S, max) == UNION {[1..n -> S] : n \in 0..max}

\* state["context"]: None or {} (no keys), or a dict with either list
ChatContexts ==
    {<< >>}
    \cup {[sources |-> s] : s \in SeqsUpTo(ContextSources, MaxItems)}
    \cup {[notes |-> n] : n \in SeqsUpTo(ContextNotes, MaxItems - 1)}
    \cup [sources : SeqsUpTo(ContextSources, MaxItems),
          notes : SeqsUpTo(ContextNotes, MaxItems - 1)]

PromptInit ==
    /\ LifeServing
    /\ DbIdle
    /\ ChatIdle
    /\ ProvIdle
    /\ resp = NoResp
    /\ promptState \in [custom_system_prompt : {None, "", "Be brief."},
                        include_citations : BOOLEAN,
                        context : ChatContexts]
    /\ system_prompt = << >>
    /\ StoreIdle

PromptNext == BuildSystemPrompt

SpecPrompt == PromptInit /\ [][PromptNext]_vars

\* ---- the updates of notes, transformations and settings
StoredNote ==
    [exists |-> TRUE, title |-> "Plan", content |-> "draft",
     note_type |-> "human"]

StoredTransformation ==
    [exists |-> TRUE, name |-> "summary", title |-> "Summary",
     description |-> "Summarise", prompt |-> "Summarise the text.",
     apply_default |-> "true"]

StoredSettings ==
    [default_content_processing_engine_doc |-> "auto",
     default_content_processing_engine_url |-> "auto",
     default_embedding_option |-> "ask",
     auto_delete_files |-> "yes",
     youtube_preferred_languages |-> "[\"en\"]"]

NoteUpdates ==
    [title : {None, "", "Memo"},
     content : {None, "", "text"},
     note_type : {None, "human", "ai", "draft"}]

TransformationUpdates ==
    [name : {None, "brief"},
     title : {None, ""},
     description : {None, "Shorten"},
     prompt : {None, "Shorten the text."},
     apply_default : {None, "false", "true"}]

SettingsUpdates ==
    [default_content_processing_engine_doc : {None, "docling"},
     default_content_processing_engine_url : {None, "jina"},
     default_embedding_option : {None, "never"},
     auto_delete_files : {None, "no"},
     youtube_preferred_languages : {None, "[]", "[\"zh\"]"}]

ProvidedInit ==
    /\ LifeServing
    /\ DbIdle
    /\ ChatIdle
    /\ ProvIdle
    /\ PromptIdle
    /\ resp = NoResp
    /\ note_records \in
           [NoteIds -> {AbsentNote, StoredNote,
                        [StoredNote EXCEPT !.title = None,
                                           !.note_type = "ai"]}]
    /\ transformations \in
           [TransformationIds -> {AbsentTransformation, StoredTransformation}]
    /\ settings \in {StoredSettings,
                     [StoredSettings EXCEPT !.auto_delete_files = "no"]}
    /\ default_prompts = << >>
    /\ episode_profiles = << >>
    /\ environ = << >>

\* One update request, on any of the three routes.
ProvidedNext ==
    /\ resp = NoResp
    /\ \/ \E note_id \in NoteIds, note_update \in NoteUpdates,
             miss \in MissOutcomes, save \in SaveOutcomes :
             update_note(note_id, note_update, miss, save)
       \/ \E transformation_id \in TransformationIds,
             transformation_update \in TransformationUpdates,
             miss \in MissOutcomes, save \in SaveOutcomes :
             update_transformation(transformation_id, transformation_update,
                                   miss, save)
       \/ \E settings_update \in SettingsUpdates, save \in SaveOutcomes :
             update_settings(settings_update, save)

SpecProvided == ProvidedInit /\ [][ProvidedNext]_vars

\* ---- episode profiles
ProfileData ==
    [name : {"Tech", "Tech - Copy", "News"}, description : {""}]

ProfilesInit ==
    /\ LifeServing
    /\ DbIdle
    /\ ChatIdle
    /\ ProvIdle
    /\ PromptIdle
    /\ resp = NoResp
    /\ note_records = << >>
    /\ transformations = << >>
    /\ settings = << >>
    /\ default_prompts = << >>
    /\ episode_profiles = [k \in ProfileIds |-> AbsentProfile]
    /\ environ = << >>

ProfilesNext ==
    \/ \E profile_data \in ProfileData : create_episode_profile(profile_data)
    \/ \E profile_id \in ProfileIds, profile_data \in ProfileData,
          miss \in MissOutcomes :
          update_episode_profile(profile_id, profile_data, miss)
    \/ \E profile_id \in ProfileIds, miss \in MissOutcomes :
          delete_episode_profile(profile_id, miss)
    \/ \E profile_id \in ProfileIds, miss \in MissOutcomes :
          duplicate_episode_profile(profile_id, miss)

SpecProfiles == ProfilesInit /\ [][ProfilesNext]_vars

\* ---- the routes of the transformations router
RoutePaths ==
    {<<"transformations", "t1">>, <<"transformations", "t2">>,
     <<"transformations", "default-prompt">>}

RouteBodies ==
    {[transformation_instructions |-> "Be concise."],
     [transformation_instructions |-> ""],
     [name |-> "brief"],
     [title |-> "", apply_default |-> "false"]}

RoutesInit ==
    /\ LifeServing
    /\ DbIdle
    /\ ChatIdle
    /\ ProvIdle
    /\ PromptIdle
    /\ resp = NoResp
    /\ note_records = << >>
    /\ transformations =
           [id \in TransformationIds |->
               IF id = "t1" THEN StoredTransformation
               ELSE AbsentTransformation]
    /\ settings = << >>
    /\ default_prompts \in
           {[transformation_instructions |-> v] : v \in {None, "Summarise."}}
    /\ episode_profiles = << >>
    /\ environ = << >>

RoutesNext ==
    \E method \in {"GET", "PUT"}, path \in RoutePaths, body \in RouteBodies,
       miss \in MissOutcomes, save \in SaveOutcomes :
       transformations_request(method, path, body, miss, save)

SpecRoutes == RoutesInit /\ [][RoutesNext]_vars

\* ---- the prompts of a notebook and its active prompt
CreatePromptRequests ==
    [notebook_id : NotebookIds, name : {"Tone"}, content : {"Be brief."}]

PromptsInit ==
    /\ LifeServing
    /\ ChatIdle
    /\ ProvIdle
    /\ PromptIdle
    /\ StoreIdle
    /\ resp = NoResp
    /\ notebooks = [n \in NotebookIds |->
                       IF n = "n1" THEN StoredNotebook ELSE AbsentNotebook]
    /\ prompts = [p \in PromptIds |-> AbsentPrompt]
    /\ sessions = [s \in SessionIds |-> AbsentSession]
    /\ refers_to = {}
    /\ sources = {}
    /\ notes = {}
    /\ reference = {}
    /\ artifact = {}

PromptsNext ==
    \/ \E request \in CreatePromptRequests, miss \in MissOutcomes,
          save \in SaveOutcomes :
           create_prompt(request, miss, save)
    \/ \E rid \in RequestIds(PromptIds),
          update_data \in Bodies({"content"}, {"Be kind."}),
          miss \in MissOutcomes, save \in SaveOutcomes :
           update_prompt(rid, update_data, miss, save)
    \/ \E rid \in RequestIds(PromptIds), miss \in MissOutcomes :
           delete_prompt(rid, miss)
    \/ \E notebook_id \in NotebookIds,
          rid \in RequestIds(PromptIds \cup {None, ""}),
          miss \in MissOutcomes :
           set_active_prompt(notebook_id, rid, miss)
    \/ \E notebook_id \in NotebookIds, miss \in MissOutcomes :
           get_active_prompt(notebook_id, miss)

SpecPrompts == PromptsInit /\ [][PromptsNext]_vars

\* ---- the environment the process was started with
Environments ==
    {env \in [EnvNames -> {None, "", "http://localhost:1234/v1"}] :
        \A v \in EnvNames \ {PasswordVar} : env[v] # ""}

EnvironInit ==
    /\ LifeServing
    /\ DbIdle
    /\ ChatIdle
    /\ ProvIdle
    /\ PromptIdle
    /\ resp = NoResp
    /\ note_records = << >>
    /\ transformations = << >>
    /\ settings = << >>
    /\ default_prompts = << >>
    /\ episode_profiles = << >>
    /\ environ \in Environments

EnvironNext ==
    \/ get_auth_status
    \/ get_providers

SpecEnviron == EnvironInit /\ [][EnvironNext]_vars

(***************************************************************************)
(* Claims                                                                  *)
(***************************************************************************)
\* The record a chat's prompt is taken from, when it is there and its
\* content is not empty
PromptContent(prompt_id) ==
    IF Truthy(prompt_id) /\ prompts[prompt_id].exists
    THEN prompts[prompt_id].content
    ELSE None

\* C1: the custom system prompt execute_chat hands to the chat graph is the
\* content of the prompt request.prompt_id names when the request gives one;
\* otherwise the content of the active prompt of the session's notebook;
\* otherwise the notebook's custom_system_prompt field; and it is empty only
\* when all three are absent (missing or empty).
C1_PromptPriority ==
    (resp.op = "execute_chat" /\ resp.invoked) =>
        LET nb == NotebookOf(resp.key)
            requested == PromptContent(resp.request.prompt_id)
            active == IF nb # None
                      THEN PromptContent(notebooks[nb].active_prompt_id)
                      ELSE None
            legacy == IF nb # None
                      THEN notebooks[nb].custom_system_prompt
                      ELSE None
            handed == resp.graph.custom_system_prompt
        IN  IF Truthy(requested) THEN handed = requested
            ELSE IF Truthy(active) THEN handed = active
            ELSE IF Truthy(legacy) THEN handed = legacy
            ELSE ~Truthy(handed)

\* C2: the model execute_chat uses is request.model_override whenever the
\* request carries one (is not None), otherwise the session's stored
\* model_override, otherwise none; that value is the model_override of the
\* graph state and the model id given to model provisioning.
C2_ModelOverrideChain ==
    (resp.op = "execute_chat" /\ resp.invoked) =>
        LET want == IF resp.request.model_override # None
                    THEN resp.request.model_override
                    ELSE sessions[resp.key].model_override
        IN  /\ resp.graph.model_override = want
            /\ resp.graph.model_id = want

\* C2 witness: a chat whose request carries the empty override while the
\* session stores one.
C2_Witness ==
    /\ resp.op = "execute_chat"
    /\ resp.invoked
    /\ resp.request.model_override = ""
    /\ sessions[resp.key].model_override = "model:m1"

\* A message list without the time of the response
Unstamped(messages) ==
    [i \in 1..Len(messages) |->
        [id |-> messages[i].id, type |-> messages[i].type,
         content |-> messages[i].content]]

\* C3 (as claimed): after execute_chat succeeded for a session id, a later
\* get_session for that id returns exactly the messages execute_chat
\* returned.
C3_SameMessages ==
    (resp.op = "get_session" /\ resp.code = 200
        /\ clientView[resp.session_id].known) =>
        resp.messages = clientView[resp.session_id].messages

\* C3 (amended): after execute_chat succeeded for a session id, a later
\* get_session for that id returns, in the same order, messages with the id,
\* type and content of those execute_chat returned, each stamped with the
\* time of the get_session response; and the next execute_chat on that id
\* starts from that history.
C3_HistoryPersisted ==
    [][/\ (resp' # resp /\ resp'.op = "get_session" /\ resp'.code = 200
            /\ clientView[resp'.session_id].known) =>
            /\ Unstamped(resp'.messages) =
                   Unstamped(clientView[resp'.session_id].messages)
            /\ \A i \in 1..Len(resp'.messages) :
                   resp'.messages[i].timestamp = now'
       /\ (chatCount' # chatCount
            /\ clientView[resp'.session_id].known) =>
            Unstamped(resp'.history) =
                Unstamped(clientView[resp'.session_id].messages)]_vars

\* C3 witness: two exchanges were persisted under a session id and
\* get_session returned them at a later time.
C3_Witness ==
    /\ resp.op = "get_session"
    /\ resp.code = 200
    /\ clientView[resp.session_id].known
    /\ Len(resp.messages) = 4
    /\ clientView[resp.session_id].messages[1].timestamp # now

\* C8: a request to the chat router that names a missing session or
\* notebook is answered with 404 ("Session not found" / "Notebook not
\* found"), whether the lookup returned nothing or raised NotFoundError.
C8_MissingIs404 ==
    /\ (resp.op \in {"get_session", "update_session", "delete_session",
                     "execute_chat"}
          /\ resp.code # 200 /\ ~sessions[resp.key].exists) =>
           (resp.code = 404 /\ resp.detail = "Session not found")
    /\ (resp.op \in {"get_sessions", "create_session"}
          /\ resp.code # 200 /\ ~notebooks[resp.notebook_id].exists) =>
           (resp.code = 404 /\ resp.detail = "Notebook not found")

\* The stored record an update request names
StoredRecord(r) ==
    IF r.op = "update_notebook" THEN notebooks[r.key]
    ELSE IF r.op = "update_session" THEN sessions[r.key]
    ELSE prompts[r.key]

C7_ServesOnlyAfterMigrationCheck ==
    /\ (lifePc \in {"serving", "shutdown"} \/ served > 0) =>
           /\ startupError = "none"
           /\ current_version # NoVersion
           /\ pendingSeen # "unknown"
           /\ pendingSeen = "yes" => new_version # NoVersion
    /\ (startupError # "none" \/ lifePc = "aborted") =>
           /\ startupError = "RuntimeError"
           /\ lifePc = "aborted"
           /\ served = 0

\* C7 witness: a request was served after pending migrations were run.
C7_Witness ==
    /\ served > 0
    /\ pendingSeen = "yes"
    /\ current_version < MaxVersion

\* C9: after add_source_to_notebook answered 200 for a notebook and a
\* source, exactly one reference edge links that source to that notebook.
C9_AddSourceIdempotent ==
    (resp.op = "add_source_to_notebook" /\ resp.code = 200) =>
        Cardinality(Links(resp.notebook_id, resp.source_id)) = 1

\* C4: call_model_with_messages invokes the model only after provisioning
\* handed it one, for the resolved model id.  With a loop running in the
\* calling thread provisioning runs only on the worker thread's new loop, and
\* the caller waits at future.result() until the worker is done; with no loop
\* running it runs only through asyncio.run in the calling thread.  The
\* caller's running loop never runs the provisioning coroutine.
C4_ModelBeforeInvoke ==
    /\ callerPc \in {"invoke", "returned"} =>
           /\ model = "model"
           /\ provisionedOn # "nowhere"
           /\ provisionArg = ModelId(cfgModelId, stateOverride)
    /\ loopRunning =>
           /\ provisionedOn \in {"nowhere", "worker_new_loop"}
           /\ workerPc \in {"new_event_loop", "run_until_complete", "finally"}
                  => callerPc = "future_result"
    /\ ~loopRunning =>
           /\ provisionedOn \in {"nowhere", "asyncio_run_calling_thread"}
           /\ workerPc = "idle"

\* C4 witness: called inside a running loop, the node returned with a model
\* that the worker thread provisioned.
C4_Witness ==
    /\ loopRunning
    /\ callerPc = "returned"
    /\ workerPc = "done"
    /\ provisionedOn = "worker_new_loop"
    /\ model = "model"

\* The items a build_context response holds for a list of config entries
BuiltFrom(items, entries, stored, ok(_, _)) ==
    /\ \A i \in 1..Len(items) :
           \E j \in 1..Len(entries) :
               /\ FullId(entries[j].id) = items[i].id
               /\ ok(entries[j].status, items[i].context_size)
    /\ Len(items) =
           Cardinality({j \in 1..Len(entries) :
                           /\ FullId(entries[j].id) \in stored
                           /\ \E size \in {"short", "long"} :
                                  ok(entries[j].status, size)})

SourceIncluded(status, size) ==
    /\ "not in" \notin status
    /\ \/ "insights" \in status /\ size = "short"
       \/ "insights" \notin status /\ "full content" \in status
              /\ size = "long"

NoteIncluded(status, size) ==
    /\ "not in" \notin status
    /\ "full content" \in status
    /\ size = "long"

\* C5: with a non-empty context_config, every source the response holds is
\* listed by an entry whose status lacks 'not in' and either contains
\* 'insights' (short context) or, lacking it, contains 'full content' (long
\* context); every note it holds is listed by an entry whose status contains
\* 'full content' and not 'not in' (long context); and each such entry that
\* names a stored record contributes one item.
C5_SelectionByStatus ==
    (resp.op = "build_context" /\ resp.code = 200
        /\ resp.request.context_config.given) =>
        /\ BuiltFrom(resp.context.sources,
                     resp.request.context_config.sources, sources,
                     SourceIncluded)
        /\ BuiltFrom(resp.context.notes,
                     resp.request.context_config.notes, notes, NoteIncluded)

\* C5 witness: a configuration whose entries ask for insights and full
\* content together, for full content alone and for exclusion gave a short
\* item, a long note and nothing else.
C5_Witness ==
    /\ resp.op = "build_context"
    /\ resp.code = 200
    /\ resp.request.context_config.given
    /\ \E i \in 1..Len(resp.request.context_config.sources) :
           resp.request.context_config.sources[i].status =
               {"insights", "full content"}
    /\ \E i \in 1..Len(resp.request.context_config.sources) :
           "not in" \in resp.request.context_config.sources[i].status
    /\ resp.context.sources = <<ContextItem("src1", "short")>>
    /\ resp.context.notes = <<ContextItem("nt1", "long")>>

\* C6: when include_citations is false, no part of the system prompt built
\* by call_model_with_messages carries an "[ID: ...]" marker and the prompt
\* has no CITING INSTRUCTIONS section, whatever the context and whether or
\* not a custom system prompt is set.
C6_NoCitationMarkers ==
    (system_prompt # << >> /\ ~promptState.include_citations) =>
        \A i \in 1..Len(system_prompt) :
            /\ system_prompt[i].id = None
            /\ system_prompt[i].heading # "# CITING INSTRUCTIONS"

\* C6 witness: a custom prompt, citations off, and a context with a source,
\* an insight and a note: the prompt lists all three.
C6_Witness ==
    /\ system_prompt # << >>
    /\ ~promptState.include_citations
    /\ Truthy(promptState.custom_system_prompt)
    /\ \E i, j, k \in 1..Len(system_prompt) :
           /\ system_prompt[i].heading = "## Source"
           /\ system_prompt[j].heading = "### Summary"
           /\ system_prompt[k].heading = "## Note"


\* The record an update request addressed, as it is stored now.
UpdatedRecord ==
    IF resp.op = "update_note" THEN note_records[resp.key]
    ELSE IF resp.op = "update_transformation" THEN transformations[resp.key]
    ELSE settings

UpdatedFields ==
    IF resp.op = "update_note" THEN NoteFields
    ELSE IF resp.op = "update_transformation" THEN TransformationFields
    ELSE SettingsFields

UpdateOps == {"update_note", "update_transformation", "update_settings"}

\* Every field has the request's value when that is not null, and its
\* stored value otherwise.
OnlyProvidedSet ==
    \A f \in UpdatedFields :
        UpdatedRecord[f] = IF resp.update[f] # None
                           THEN resp.update[f]
                           ELSE resp.before[f]

\* C11 as stated: after update_note, update_transformation or
\* update_settings on a stored record, a field holds the request's value
\* exactly when the request gives a non-null value for it, and every other
\* field keeps its stored value.
C11_OnlyProvidedFields ==
    (/\ resp.op \in UpdateOps
     /\ resp.op = "update_settings" \/ resp.before.exists
     /\ resp.save = "saved")
        => OnlyProvidedSet

\* C11, amended: the same holds of every update that is answered 200; an
\* update that is rejected (a note_type other than "human" or "ai", a
\* record that is not found, a save that fails) changes no stored field.
C11_OnlyProvidedFieldsWhenAccepted ==
    resp.op \in UpdateOps =>
        IF resp.code = 200
        THEN OnlyProvidedSet
        ELSE UpdatedRecord = resp.before

\* A note is given an empty title and no content: the title is set, the
\* content stays.
C11_Witness ==
    /\ resp.op = "update_note"
    /\ resp.code = 200
    /\ resp.update.title = ""
    /\ resp.update.content = None
    /\ resp.before.title = "Plan"
    /\ note_records[resp.key].title = ""
    /\ note_records[resp.key].content = "draft"

C13_DefaultPromptRoutes ==
    (/\ resp.op \in {"get_transformation", "update_transformation",
                     "get_default_prompt", "update_default_prompt"}
     /\ resp.key \in {"default-prompt", "default_prompts"})
        => /\ resp.op \in {"get_default_prompt", "update_default_prompt"}
           /\ resp.code = 200
           /\ resp.transformation_instructions =
                  IF Truthy(default_prompts.transformation_instructions)
                  THEN default_prompts.transformation_instructions
                  ELSE ""

\* C14: set_active_prompt on a notebook: a prompt_id that names no prompt is
\* answered 404 and leaves active_prompt_id as it was; one that names a
\* prompt makes active_prompt_id that prompt's full id; a null one unsets it.
C14_SetActiveVerifies ==
    resp.op = "set_active_prompt" =>
        LET active == notebooks[resp.notebook_id].active_prompt_id
        IN /\ resp.detail = "Prompt not found"
                => resp.code = 404 /\ active = resp.before
           /\ resp.code = 200
                => active = IF Truthy(resp.prompt_id.key)
                            THEN FullId(resp.prompt_id)
                            ELSE None

\* The notebook's active_prompt_id is null or names a stored system prompt.
ActiveValid(nbs, ps, n) ==
    nbs[n].active_prompt_id = None \/ ps[nbs[n].active_prompt_id].exists

\* C19 as stated: every notebook's active_prompt_id is null or the id of a
\* system prompt that currently exists.
C19_ActivePromptExists ==
    \A n \in NotebookIds : ActiveValid(notebooks, prompts, n)

\* C19, amended: no call gives a notebook an active_prompt_id that names no
\* stored prompt; an active_prompt_id comes to name no prompt only by
\* delete_prompt deleting that prompt, and then stays as it is until
\* set_active_prompt replaces it or get_active_prompt clears it.
C19_ActivePromptExistedWhenSet ==
    [][\A n \in NotebookIds :
          \/ ActiveValid(notebooks', prompts', n)
          \/ /\ notebooks'[n].active_prompt_id = notebooks[n].active_prompt_id
             /\ \/ ~ActiveValid(notebooks, prompts, n)
                \/ /\ resp'.op = "delete_prompt"
                   /\ resp'.code = 200
                   /\ resp'.key = notebooks[n].active_prompt_id]_vars

\* The active prompt of a notebook has just been deleted.
C19_Witness ==
    /\ resp.op = "delete_prompt"
    /\ resp.code = 200
    /\ notebooks["n1"].active_prompt_id = resp.key
    /\ ~prompts[resp.key].exists

\* C15: the answer of GET /api/auth/status has auth_enabled true exactly
\* when OPEN_NOTEBOOK_PASSWORD is set to a non-empty value, the message
\* "Authentication is required" then and "Authentication is disabled"
\* otherwise, and its path is excluded from password authentication.
C15_AuthStatus ==
    resp.op = "get_auth_status" =>
        LET set == environ[PasswordVar] \notin {None, ""}
        IN /\ resp.auth_enabled <=> set
           /\ set => resp.message = "Authentication is required"
           /\ ~set => resp.message = "Authentication is disabled"
           /\ resp.path = "/api/auth/status"
           /\ resp.path \in excluded_paths

\* The variable is set, but empty: authentication is reported disabled.
C15_Witness ==
    /\ resp.op = "get_auth_status"
    /\ environ[PasswordVar] = ""
    /\ ~resp.auth_enabled
    /\ resp.message = "Authentication is disabled"

\* C17: "openai-compatible" is available exactly when the generic variable
\* or a mode-specific one is set; its supported types are all four when the
\* generic variable is set, otherwise the types whose variable is set; when
\* none is set it is unavailable and has no supported_types entry.
C17_OpenAICompatibleProviders ==
    resp.op = "get_providers" =>
        LET provider == "openai-compatible"
            generic == environ[GenericVar] # None
            specific == {t \in ModelTypes : environ[ModeVar[t]] # None}
        IN /\ provider \in resp.available <=> (generic \/ specific # {})
           /\ provider \in resp.unavailable <=> provider \notin resp.available
           /\ provider \in DOMAIN resp.supported_types
                  <=> provider \in resp.available
           /\ provider \in resp.available =>
                  resp.supported_types[provider] =
                      IF generic
                      THEN {"language", "embedding", "speech_to_text",
                            "text_to_speech"}
                      ELSE specific

\* The generic variable and the one for language models are both set: all
\* four types are supported.
C17_Witness ==
    /\ resp.op = "get_providers"
    /\ environ[GenericVar] # None
    /\ environ[ModeVar["language"]] # None
    /\ environ[ModeVar["embedding"]] = None
    /\ Cardinality(resp.supported_types["openai-compatible"]) = 4

\* The threads a session's chats are checkpointed under: the session id as
\* a request may write it, with the table prefix or without.
ThreadsOf(key) == {key, "chat_session:" \o key}

\* The number of messages persisted for a session.
PersistedCount(key) ==
    Len(checkpoints[key]) + Len(checkpoints["chat_session:" \o key])

\* C16: the message_count of a session in a response of get_sessions,
\* create_session, get_session or update_session is the number of messages
\* in that session's persisted history.
C16_MessageCount ==
    /\ (/\ resp.op \in {"create_session", "get_session", "update_session"}
        /\ resp.code = 200)
           => resp.message_count = PersistedCount(resp.id)
    /\ (resp.op = "get_sessions" /\ resp.code = 200)
           => \A s \in resp.body : s.message_count = PersistedCount(s.id)

MessageIds(messages) == {messages[i].id : i \in 1..Len(messages)}

\* C18: the histories of distinct sessions are isolated: no message is in
\* the persisted history of two sessions, get_session for a session returns
\* only messages of that session's history, and execute_chat on a session
\* leaves the history of every other session as it was.
C18_SessionsIsolated ==
    /\ [](/\ \A a, b \in SessionIds :
                a # b =>
                    \A ta \in ThreadsOf(a), tb \in ThreadsOf(b) :
                        MessageIds(checkpoints[ta])
                            \cap MessageIds(checkpoints[tb]) = {}
          /\ (resp.op = "get_session" /\ resp.code = 200) =>
                 \A b \in SessionIds \ {resp.key} :
                     \A tb \in ThreadsOf(b) :
                         MessageIds(resp.messages)
                             \cap MessageIds(checkpoints[tb]) = {})
    /\ [][(resp'.op = "execute_chat" /\ chatCount' # chatCount) =>
             \A b \in SessionIds \ {resp'.key} :
                 \A tb \in ThreadsOf(b) : checkpoints'[tb] = checkpoints[tb]]_vars

\* Both sessions have a history, and the history of the second is returned.
C18_Witness ==
    /\ resp.op = "get_session"
    /\ resp.code = 200
    /\ resp.key = "cs2"
    /\ Len(resp.messages) > 0
    /\ \E t \in ThreadsOf("cs1") : Len(checkpoints[t]) > 0

\* C20: the asyncio.run fallback is entered only when no event loop is
\* running in the calling thread; with a loop running, a failure of the
\* worker thread is never followed by asyncio.run.
C20_FallbackOnlyWithoutLoop ==
    callerPc = "asyncio_run" => ~loopRunning

\* C21: the context build_context returns for a notebook holds only
\* sources and notes that are linked to that notebook, also when
\* context_config lists others.
C21_ContextOfNotebookOnly ==
    (resp.op = "build_context" /\ resp.code = 200) =>
        /\ \A i \in 1..Len(resp.context.sources) :
              resp.context.sources[i].id
                  \in NotebookSources(resp.request.notebook_id)
        /\ \A i \in 1..Len(resp.context.notes) :
              resp.context.notes[i].id
                  \in NotebookNotes(resp.request.notebook_id)

\* The reference edges between pairs other than source s and notebook n.
OtherLinks(edges, n, s) == {e \in edges : ~(e.in = s /\ e.out = n)}

\* C22: when remove_source_from_notebook(n, s) has answered 200, no edge
\* links s to n, however many did; the edges of every other pair are as
\* they were, and so are the source records.
C22_RemoveUnlinksOnlyThePair ==
    [][(/\ resp'.op = "remove_source_from_notebook"
        /\ resp'.code = 200)
           => /\ \A e \in reference' :
                    ~(e.in = resp'.source_id /\ e.out = resp'.notebook_id)
              /\ OtherLinks(reference', resp'.notebook_id, resp'.source_id)
                     = OtherLinks(reference, resp'.notebook_id,
                                  resp'.source_id)
              /\ sources' = sources]_vars

\* src1 was added to n1 twice and src2 once (its edge is the third one
\* made); after src1 is removed only the edge of src2 is left.
C22_Witness ==
    /\ resp.op = "remove_source_from_notebook"
    /\ resp.code = 200
    /\ resp.notebook_id = "n1"
    /\ resp.source_id = "src1"
    /\ reference = {[id |-> 3, in |-> "src2", out |-> "n1"]}
    /\ "src1" \in sources
====
